---- MODULE Spec2Model ----
(***************************************************************************)
(* mepris: the step orchestration engine.                                  *)
(*                                                                         *)
(* The model follows src/src/commands/run.rs (run::handle, filter_steps),  *)
(* src/src/commands/resume.rs (resume::handle), src/src/commands/utils.rs  *)
(* (the stage filters, RunStateSaver), src/src/state.rs (the state file),  *)
(* src/src/runner/mod.rs (run, run_step, run_script, install_packages),    *)
(* src/src/runner/script_checker.rs and src/src/config/expr.rs.            *)
(*                                                                         *)
(* Conventions.  An Option<T> is a sequence: <<>> is None, <<x>> is        *)
(* Some(x).  A Result is a record with a field ok.  A path is a sequence   *)
(* of components: <<name>> is relative, <<dir, name>> is absolute.  A tag  *)
(* expression string is the sequence of its tokens.                        *)
(* A record constructor lists its fields in the order TLC keeps them in     *)
(* (the order in which the names first occur in the module), so that a     *)
(* record is in normal form from the moment it is built.                   *)
(***************************************************************************)
EXTENDS Integers, Sequences, FiniteSets, TLC

None == <<>>
Some(x) == <<x>>
IsSome(o) == Len(o) > 0
Unwrap(o) == o[1]

SeqToSet(s) == {s[k] : k \in 1..Len(s)}
Contains(s, x) == \E k \in 1..Len(s) : s[k] = x

(***************************************************************************)
(* Bounds of the model.                                                    *)
(***************************************************************************)
\* commands (run / resume) issued in one behaviour
MaxCommands == 2
\* failing writes of the state file in one behaviour
MaxSaveFailures == 1
\* steps in a pool a filter is called with
MaxPool == 3
\* ids in an id list a filter is called with
MaxIds == 2

(***************************************************************************)
(* config/expr.rs: the expression AST and its two evaluators.              *)
(***************************************************************************)
Var(n) == [k |-> "Var", name |-> n, a |-> <<>>, b |-> <<>>]
Not(e) == [k |-> "Not", name |-> "", a |-> <<e>>, b |-> <<>>]
And(l, r) == [k |-> "And", name |-> "", a |-> <<l>>, b |-> <<r>>]
Or(l, r) == [k |-> "Or", name |-> "", a |-> <<l>>, b |-> <<r>>]

\* Expr::vars
RECURSIVE expr_vars(_)
expr_vars(expr) ==
    CASE expr.k = "Var" -> {expr.name}
      [] expr.k = "Not" -> expr_vars(expr.a[1])
      [] OTHER -> expr_vars(expr.a[1]) \cup expr_vars(expr.b[1])

\* a slip: the atom is compared as it is written
to_ascii_lowercase_kept(s) == s

\* str::to_ascii_lowercase on the atom alphabet of the model
to_ascii_lowercase(s) ==
    CASE s = "Ubuntu" -> "ubuntu"
      [] s = "Linux" -> "linux"
      [] s = "%Debian" -> "%debian"
      [] OTHER -> s

\* str::strip_prefix('%') on the atom alphabet of the model
strip_prefix_percent(s) ==
    CASE s = "%debian" -> Some("debian")
      [] s = "%arch" -> Some("arch")
      [] s = "%ubuntu" -> Some("ubuntu")
      [] OTHER -> None

parse_term(term) ==
    LET norm == to_ascii_lowercase(term)
        rest == strip_prefix_percent(norm)
    IN  IF IsSome(rest) THEN [c |-> "IdLike", id |-> Unwrap(rest)]
        ELSE [c |-> "Os", id |-> norm]

RECURSIVE eval_os_expr(_, _)
eval_os_expr(expr, os_info) ==
    CASE expr.k = "Var" ->
            LET t == parse_term(expr.name)
            IN  IF t.c = "Os"
                THEN t.id = os_info.platform \/ Some(t.id) = os_info.id
                ELSE Contains(os_info.id_like, t.id)
      [] expr.k = "Not" -> ~eval_os_expr(expr.a[1], os_info)
      [] expr.k = "And" -> eval_os_expr(expr.a[1], os_info) /\ eval_os_expr(expr.b[1], os_info)
      [] OTHER -> eval_os_expr(expr.a[1], os_info) \/ eval_os_expr(expr.b[1], os_info)

\* a slip: the And arm joins its operands with ||
RECURSIVE eval_tags_expr_and_as_or(_, _)
eval_tags_expr_and_as_or(expr, tags) ==
    CASE expr.k = "Var" -> Contains(tags, expr.name)
      [] expr.k = "Not" -> ~eval_tags_expr_and_as_or(expr.a[1], tags)
      [] OTHER -> \/ eval_tags_expr_and_as_or(expr.a[1], tags)
                  \/ eval_tags_expr_and_as_or(expr.b[1], tags)

RECURSIVE eval_tags_expr(_, _)
eval_tags_expr(expr, tags) ==
    CASE expr.k = "Var" -> Contains(tags, expr.name)
      [] expr.k = "Not" -> ~eval_tags_expr(expr.a[1], tags)
      [] expr.k = "And" -> eval_tags_expr(expr.a[1], tags) /\ eval_tags_expr(expr.b[1], tags)
      [] OTHER -> eval_tags_expr(expr.a[1], tags) \/ eval_tags_expr(expr.b[1], tags)

(***************************************************************************)
(* config/expr.rs parse / build_expr over the token sequence of the input. *)
(* The grammar file (config/expr.pest) is not among the sources; the       *)
(* grammar is the one of the specification, section 4.1:                   *)
(*   expr := or_expr;  or_expr := and_expr ("||" and_expr)*;               *)
(*   and_expr := not_expr ("&&" not_expr)*;  not_expr := "!"* atom;        *)
(*   atom := "(" expr ")" | word                                           *)
(* A parse result is [ok, e, rest]: the expression and the unread tokens.  *)
(***************************************************************************)
Operators == {"!", "&&", "||", "(", ")"}
ParseFail == [e |-> Var(""), rest |-> <<>>, ok |-> FALSE]
ParseOk(e, rest) == [e |-> e, rest |-> rest, ok |-> TRUE]

RECURSIVE ParseOrExpr(_), ParseOrTail(_, _), ParseAndExpr(_), ParseAndTail(_, _)
RECURSIVE ParseNotExpr(_), ParseAtom(_)

\* atom, after "(" expr: the closing ")" must follow
CloseParen(inner) ==
    IF inner.ok /\ inner.rest # <<>> /\ inner.rest[1] = ")"
    THEN ParseOk(inner.e, Tail(inner.rest))
    ELSE ParseFail

ParseAtom(toks) ==
    IF toks = <<>> THEN ParseFail
    ELSE IF toks[1] = "(" THEN CloseParen(ParseOrExpr(Tail(toks)))
    ELSE IF toks[1] \in Operators THEN ParseFail
    ELSE ParseOk(Var(toks[1]), Tail(toks))

\* build_expr, Rule::not_expr: one Not around the operand per leading "!"
WrapNot(r) == IF r.ok THEN ParseOk(Not(r.e), r.rest) ELSE ParseFail

ParseNotExpr(toks) ==
    IF toks # <<>> /\ toks[1] = "!" THEN WrapNot(ParseNotExpr(Tail(toks)))
    ELSE ParseAtom(toks)

\* build_expr, Rule::and_expr: a left fold of And over the operands
FoldAnd(left, r) == IF r.ok THEN ParseAndTail(And(left, r.e), r.rest) ELSE ParseFail

ParseAndTail(left, toks) ==
    IF toks # <<>> /\ toks[1] = "&&" THEN FoldAnd(left, ParseNotExpr(Tail(toks)))
    ELSE ParseOk(left, toks)

StartAnd(first) == IF first.ok THEN ParseAndTail(first.e, first.rest) ELSE ParseFail

ParseAndExpr(toks) == StartAnd(ParseNotExpr(toks))

\* build_expr, Rule::or_expr: a left fold of Or over the operands
FoldOr(left, r) == IF r.ok THEN ParseOrTail(Or(left, r.e), r.rest) ELSE ParseFail

ParseOrTail(left, toks) ==
    IF toks # <<>> /\ toks[1] = "||" THEN FoldOr(left, ParseAndExpr(Tail(toks)))
    ELSE ParseOk(left, toks)

StartOr(first) == IF first.ok THEN ParseOrTail(first.e, first.rest) ELSE ParseFail

ParseOrExpr(toks) == StartOr(ParseAndExpr(toks))

\* parse(input): the whole input must be one expr
WholeInput(r) ==
    IF r.ok /\ r.rest = <<>> THEN [e |-> r.e, ok |-> TRUE]
    ELSE [e |-> Var(""), ok |-> FALSE]

parse(input) == WholeInput(ParseOrExpr(input))

(***************************************************************************)
(* The document and the host.  config/mod.rs Step, Script; os_info.rs.     *)
(***************************************************************************)
Script(shell, code) == [shell |-> shell, code |-> code]

Step(id, tags, os, env, when, pre, script, packages, source) ==
    [id |-> id, tags |-> tags, os |-> os, env |-> env, script |-> script,
     packages |-> packages, when_script |-> when, pre_script |-> pre,
     package_source |-> source, defaults |-> None]

\* config/mod.rs Defaults: only the Windows package manager matters here
Defaults(windows_package_manager) == [windows_package_manager |-> windows_package_manager]

DocDir == "/proj"
OtherDir == "/other"
DocName == "file.yaml"
\* the document's absolute path, and the same file named relative to DocDir
DocPath == <<DocDir, DocName>>
RelPath == <<DocName>>

\* the flat ordered step list parser::parse yields for the document
Steps ==
    << Step("a", <<"t1">>, None, <<"HOME">>,
            Some(Script("bash", "a.when")), Some(Script("bash", "a.pre")),
            Some(Script("bash", "a.main")), <<"git">>, None),
       Step("w", <<"t3">>, Some(Var("windows")), <<"WINVAR">>,
            None, None, Some(Script("bash", "w.main")), <<>>, None),
       Step("b", <<"t1", "t2">>, Some(Not(Var("%arch"))), <<"TOKEN">>,
            None, None, Some(Script("bash", "b.main")), <<>>,
            Some([name |-> "apt", t |-> "Manager"])),
       Step("c", <<"t2">>, None, <<"HOME">>,
            Some(Script("bash", "c.when")), None,
            Some(Script("bash", "c.main")), <<"fd">>,
            Some([name |-> "pacman", t |-> "Manager"])) >>

\* a second document, in a directory with a pkg_aliases.yaml of its own: "p"
\* installs from an explicit source and runs a pwsh script, "q" is guarded by a
\* pwsh script, "r" installs with the default manager
PkgDir == "/pkgs"
PkgPath == <<PkgDir, DocName>>

PkgSteps ==
    << Step("p", <<"t1">>, None, <<>>, None, None,
            Some(Script("pwsh", "p.main")), <<"fd">>,
            Some([name |-> "apt", t |-> "Manager"])),
       Step("q", <<"t2">>, None, <<>>,
            Some(Script("pwsh", "q.when")), None,
            Some(Script("bash", "q.main")), <<>>, None),
       Step("r", <<"t2">>, None, <<>>,
            Some(Script("bash", "r.when")), Some(Script("bash", "r.pre")),
            Some(Script("bash", "r.main")), <<"fd", "git">>, None) >>

\* OS_INFO of the host the model runs on
HostOs == [id |-> Some("ubuntu"), platform |-> "linux", id_like |-> <<"debian">>]

StepIds(steps) == [k \in 1..Len(steps) |-> steps[k].id]

(***************************************************************************)
(* commands/utils.rs: the stage filters.  A Result<FilterResult> is        *)
(* [ok, matching, not_matching, why, unknown]: why is the error and        *)
(* unknown is what its message lists.                                      *)
(***************************************************************************)
FilterOk(m, n) ==
    [ok |-> TRUE, matching |-> m, not_matching |-> n, why |-> "", unknown |-> <<>>]
FilterErr(why, unknown) ==
    [ok |-> FALSE, matching |-> <<>>, not_matching |-> <<>>, why |-> why, unknown |-> unknown]

\* SelectSeq with the predicate's complement: the second half of a partition
Reject(s, Test(_)) == LET NotTest(x) == ~Test(x) IN SelectSeq(s, NotTest)

\* the HashMap id -> step built from the pool: the last step with an id wins
MapGet(steps, id) ==
    LET ks == {k \in 1..Len(steps) : steps[k].id = id}
    IN  steps[CHOOSE k \in ks : \A j \in ks : j <= k]

\* a slip: the matching steps are left in the order of the pool
filter_by_ids_pool_order(steps, ids) ==
    LET known(id) == Contains(StepIds(steps), id)
        unknown_steps == Reject(ids, known)
        requested(s) == Contains(ids, s.id)
    IN  IF unknown_steps # <<>> THEN FilterErr("unknown_steps", unknown_steps)
        ELSE FilterOk(SelectSeq(steps, requested), Reject(steps, requested))

filter_by_ids(steps, ids) ==
    LET known(id) == Contains(StepIds(steps), id)
        unknown_steps == Reject(ids, known)
        requested(s) == Contains(ids, s.id)
    IN  IF unknown_steps # <<>> THEN FilterErr("unknown_steps", unknown_steps)
        ELSE FilterOk([k \in 1..Len(ids) |-> MapGet(steps, ids[k])],
                      Reject(steps, requested))

\* a slip: no tag is ever unknown
UnknownTags_none(steps, tags_to_check) == {}

\* check_tags_exist: the tags to check that no step of the pool carries
UnknownTags(steps, tags_to_check) ==
    LET all_tags == UNION {SeqToSet(steps[k].tags) : k \in 1..Len(steps)}
    IN  tags_to_check \ all_tags

\* filter_by_tags once the expression is parsed
filter_by_expr(steps, p) ==
    LET matches(s) == eval_tags_expr(p.e, s.tags)
    IN  IF ~p.ok THEN FilterErr("parse", <<>>)
        ELSE IF UnknownTags(steps, expr_vars(p.e)) # {}
             THEN FilterErr("unknown_tags", UnknownTags(steps, expr_vars(p.e)))
        ELSE FilterOk(SelectSeq(steps, matches), Reject(steps, matches))

filter_by_tags(steps, tags_expr) == filter_by_expr(steps, parse(tags_expr))

\* a slip: a start id that is not found keeps every step
filter_steps_start_with_id_lenient(steps, start_step_id) ==
    LET ks == {k \in 1..Len(steps) : steps[k].id = start_step_id}
        pos == CHOOSE k \in ks : \A j \in ks : k <= j
    IN  IF ks = {} THEN FilterOk(steps, <<>>)
        ELSE FilterOk(SubSeq(steps, pos, Len(steps)), SubSeq(steps, 1, pos - 1))

filter_steps_start_with_id(steps, start_step_id) ==
    LET ks == {k \in 1..Len(steps) : steps[k].id = start_step_id}
        pos == CHOOSE k \in ks : \A j \in ks : k <= j
    IN  IF ks = {} THEN FilterErr("start_not_found", <<start_step_id>>)
        ELSE FilterOk(SubSeq(steps, pos, Len(steps)), SubSeq(steps, 1, pos - 1))

\* a slip: the matching steps are collected back to front
filter_by_os_reversed(steps, os_info) ==
    LET matches(s) == s.os = None \/ eval_os_expr(Unwrap(s.os), os_info)
        kept == SelectSeq(steps, matches)
    IN  FilterOk([k \in 1..Len(kept) |-> kept[Len(kept) + 1 - k]], Reject(steps, matches))

filter_by_os(steps, os_info) ==
    LET matches(s) == s.os = None \/ eval_os_expr(Unwrap(s.os), os_info)
    IN  FilterOk(SelectSeq(steps, matches), Reject(steps, matches))

(***************************************************************************)
(* commands/run.rs filter_steps: ids, then tags, then OS, then the resume  *)
(* start point; each stage consumes the previous stage's matching list.    *)
(***************************************************************************)
\* the stage whose `?` returns first, when one fails
FirstFailed(by_ids, by_tags, by_start) ==
    IF ~by_ids.ok THEN by_ids ELSE IF ~by_tags.ok THEN by_tags ELSE by_start

FilteredSteps(by_ids, by_tags, by_os, by_start) ==
    IF ~by_ids.ok \/ ~by_tags.ok \/ ~by_start.ok
    THEN [ok |-> FALSE, why |-> FirstFailed(by_ids, by_tags, by_start).why,
          unknown |-> FirstFailed(by_ids, by_tags, by_start).unknown,
          filtered_steps |-> <<>>, excluded_by_tags |-> <<>>,
          excluded_by_os |-> <<>>, skipped |-> <<>>]
    ELSE [ok |-> TRUE, why |-> "", unknown |-> <<>>,
          filtered_steps |-> by_start.matching,
          excluded_by_tags |-> by_tags.not_matching,
          excluded_by_os |-> by_os.not_matching,
          skipped |-> by_start.not_matching]

StageStart(args, by_ids, by_tags, by_os) ==
    FilteredSteps(by_ids, by_tags, by_os,
                  IF IsSome(args.start_step_id)
                  THEN filter_steps_start_with_id(by_os.matching, Unwrap(args.start_step_id))
                  ELSE FilterOk(by_os.matching, <<>>))

StageOs(os_info, args, by_ids, by_tags) ==
    StageStart(args, by_ids, by_tags, filter_by_os(by_tags.matching, os_info))

StageTags(os_info, args, by_ids) ==
    StageOs(os_info, args, by_ids,
            IF IsSome(args.tags_expr)
            THEN filter_by_tags(by_ids.matching, Unwrap(args.tags_expr))
            ELSE FilterOk(by_ids.matching, <<>>))

filter_steps(steps, os_info, args) ==
    StageTags(os_info, args,
              IF args.steps # <<>> THEN filter_by_ids(steps, args.steps)
              ELSE FilterOk(steps, <<>>))

(***************************************************************************)
(* The state.                                                              *)
(***************************************************************************)
VARIABLES
    stateFile,    \* the run-state file: [kind, info]; kind is absent, corrupt or ok
    cwd,          \* the working directory the next command is issued from
    badScripts,   \* the script bodies of the document that have a syntax error
    shells,       \* the shells is_shell_available reports
    onPath,       \* the package managers `which` finds
    shellEnv,     \* the environment commands inherit: a set of <<name, value>>
    dotEnv,       \* the .env file next to the document: a set of <<name, value>>
    pc,           \* the position of the running command; "idle" between commands
    child,        \* the phase whose subprocess is running, as an Option
    cmd,          \* the running (or last) command: [kind, args]
    procEnv,      \* the process environment of the command
    msg,          \* what the command's error names: unknown ids or tags, missing variables
    saver,        \* its RunStateSaver: [file, tags_expr, steps]
    filtered,     \* the filtered steps runner::run was given
    i,            \* the index of the loop's current step in filtered
    interactive,  \* run's local `interactive`
    checked,      \* DefaultScriptChecker.checked of the command
    lastEv,       \* the last thing the command did: an event [k, step, ev, ok, d]
    firstStep,    \* the step of the first thing the command did, as an Option
    wrote,        \* the command has called state_saver.save
    lastSaveOk,   \* the command's last state_saver.save succeeded (TRUE before the first)
    res,          \* the command's result: [status, why, step]
    plan,         \* the DryRunPlan under construction
    ncmds,        \* commands issued so far
    nfail,        \* state-file writes that failed so far
    pool,         \* the steps a filter is called with, when one is called on its own
    call,         \* that call: [fn, ids, tags_expr, os_info, start, out]
    io            \* one run_script, when it is looked at on its own: the child's
                  \* pipes, the reader threads, the channel and the log

engine == <<stateFile, cwd, badScripts, shells, onPath, shellEnv, dotEnv, pc, child, cmd,
          procEnv, msg, saver, filtered, i, interactive, checked, lastEv, firstStep, wrote, lastSaveOk,
          res, plan, ncmds, nfail>>

vars == <<engine, pool, call, io>>

\* what the command did so far, and what it wrote
hist == <<lastEv, firstStep>>
writes == <<wrote, lastSaveOk>>

env == <<badScripts, shells, onPath, shellEnv, dotEnv>>

\* the filter called on its own
probe == <<pool, call, io>>

(***************************************************************************)
(* state.rs and commands/utils.rs: the state file.                         *)
(***************************************************************************)
RunInfo(file, tags_expr, steps, inter, last_step_id) ==
    [steps |-> steps, tags_expr |-> tags_expr, interactive |-> inter, file |-> file,
     last_step_id |-> last_step_id]

NoInfo == RunInfo(<<>>, None, <<>>, FALSE, None)
Absent == [kind |-> "absent", info |-> NoInfo]
Corrupt == [kind |-> "corrupt", info |-> NoInfo]

\* a slip: a file that cannot be read counts as an empty state
state_get_default(file) ==
    IF file.kind = "ok" THEN [ok |-> TRUE, info |-> file.info]
    ELSE [ok |-> TRUE, info |-> NoInfo]

\* state::get: absence or a parse failure is an error
state_get(file) ==
    IF file.kind = "ok" THEN [ok |-> TRUE, info |-> file.info]
    ELSE [ok |-> FALSE, info |-> NoInfo]

\* how a write of the state file can end: it succeeds; File::create fails and
\* the file is as before; File::create has truncated the file and write_all fails
SaveOutcomes == {"written", "create_failed", "write_failed"}

\* state::save: the file after the call
state_save(file, info, outcome) ==
    CASE outcome = "written" -> [kind |-> "ok", info |-> info]
      [] outcome = "create_failed" -> file
      [] OTHER -> Corrupt

\* a slip: the RunInfo written never carries the interactive flag
SaverInfo_plain(sv, run_state) ==
    RunInfo(sv.file, sv.tags_expr, sv.steps, FALSE, run_state.last_step_id)

\* RunStateSaver::save: the RunInfo written for a RunState
SaverInfo(sv, run_state) ==
    RunInfo(sv.file, sv.tags_expr, sv.steps, run_state.interactive, run_state.last_step_id)

\* a slip: the RunState never names the step
RunState_cleared(last_step_id, inter) == [interactive |-> inter, last_step_id |-> None]

RunState(last_step_id, inter) == [interactive |-> inter, last_step_id |-> last_step_id]

(***************************************************************************)
(* helpers.rs get_absolute_path, and the files that exist.                 *)
(***************************************************************************)
IsAbsolute(path) == Len(path) = 2
Exists(path) == path \in {DocPath, PkgPath}

get_absolute_path(file, base) ==
    IF IsAbsolute(file) THEN [ok |-> TRUE, path |-> file]
    ELSE IF Exists(<<base>> \o file) THEN [ok |-> TRUE, path |-> <<base>> \o file]
    ELSE [ok |-> FALSE, path |-> <<>>]

\* parser::parse: resolves the path again and reads the file
parser_parse(file, base) ==
    LET abs == get_absolute_path(file, base)
    IN  IF abs.ok /\ Exists(abs.path)
        THEN [ok |-> TRUE, steps |-> IF abs.path = PkgPath THEN PkgSteps ELSE Steps]
        ELSE [ok |-> FALSE, steps |-> <<>>]

check_unique_id(steps) ==
    \A j, k \in 1..Len(steps) : steps[j].id = steps[k].id => j = k

\* a slip: only the first step's variables are looked at
check_env_first_step(steps, bound) ==
    IF steps = <<>> THEN {}
    ELSE {<<steps[1].env[j], steps[1].id>> :
              j \in {n \in 1..Len(steps[1].env) : steps[1].env[n] \notin bound}}

\* check_env: the (variable, step) pairs that are unbound
check_env(steps, bound) ==
    UNION {{<<steps[k].env[j], steps[k].id>> :
                j \in {n \in 1..Len(steps[k].env) : steps[k].env[n] \notin bound}} :
           k \in 1..Len(steps)}

\* the names an environment binds
Bound(environment) == {b[1] : b \in environment}

\* load_env: the process environment once the adjacent .env file is loaded;
\* dotenvy::from_filename_override lets the file's values replace existing ones
load_env(inherited) ==
    {b \in inherited : b[1] \notin Bound(dotEnv)} \cup dotEnv

(***************************************************************************)
(* runner/script_checker.rs and shell.rs.                                  *)
(***************************************************************************)
is_shell_available(shell) == shell \in shells

\* the shells whose binary Command::new finds on the hosts: there is no pwsh
ShellBinaries == {"bash"}

hash_script(script) == <<script.shell, script.code>>

is_checked(chk, script) == hash_script(script) \in chk

\* a slip: a check that is skipped marks the script all the same
check_script_marks_skipped(chk, script, skip_if_shell_unavailable) ==
    IF skip_if_shell_unavailable /\ ~is_shell_available(script.shell)
    THEN [ok |-> TRUE, checked |-> chk \cup {hash_script(script)}]
    ELSE IF script.shell \notin ShellBinaries \/ script.code \in badScripts
         THEN [ok |-> FALSE, checked |-> chk]
         ELSE [ok |-> TRUE, checked |-> chk \cup {hash_script(script)}]

\* check_script: [ok, checked]; a skipped check succeeds and marks nothing, and
\* a shell that cannot be started is an error ("Failed to run shell")
check_script(chk, script, skip_if_shell_unavailable) ==
    IF skip_if_shell_unavailable /\ ~is_shell_available(script.shell)
    THEN [ok |-> TRUE, checked |-> chk]
    ELSE IF script.shell \notin ShellBinaries \/ script.code \in badScripts
         THEN [ok |-> FALSE, checked |-> chk]
         ELSE [ok |-> TRUE, checked |-> chk \cup {hash_script(script)}]

\* the scripts of a step in the order check_scripts visits them
StepScripts(step) == step.when_script \o step.pre_script \o step.script

RECURSIVE AllScripts(_)
AllScripts(steps) ==
    IF steps = <<>> THEN <<>>
    ELSE [k \in 1..Len(StepScripts(Head(steps))) |->
              [script |-> StepScripts(Head(steps))[k], step |-> Head(steps).id]]
         \o AllScripts(Tail(steps))

RECURSIVE CheckAll(_, _, _)
CheckAll(todo, chk, skip) ==
    IF todo = <<>> THEN [ok |-> TRUE, checked |-> chk, step |-> None]
    ELSE LET c == check_script(chk, Head(todo).script, skip)
         IN  IF c.ok THEN CheckAll(Tail(todo), c.checked, skip)
             ELSE [ok |-> FALSE, checked |-> chk, step |-> Some(Head(todo).step)]

\* a slip: the pre-flight check is left out
check_scripts_unchecked(steps, chk, skip_if_shell_unavailable) ==
    [ok |-> TRUE, checked |-> chk, step |-> None]

\* check_scripts: stops at the first script whose check fails
check_scripts(steps, chk, skip_if_shell_unavailable) ==
    CheckAll(AllScripts(steps), chk, skip_if_shell_unavailable)

(***************************************************************************)
(* runner/mod.rs default_package_manager, step_package_manager.            *)
(***************************************************************************)
LinuxManagers == <<"pacman", "apt", "dnf", "zypper">>

get_package_managers(source) ==
    IF source.t = "Repository" THEN <<"yay", "paru">> ELSE <<source.name>>

\* the first element of a list that `which` finds, as an Option
FirstOnPath(managers) ==
    LET found == {k \in 1..Len(managers) : managers[k] \in onPath}
    IN  IF found = {} THEN None
        ELSE Some(managers[CHOOSE k \in found : \A j \in found : k <= j])

default_package_manager(platform) ==
    IF platform = "macos" THEN [ok |-> TRUE, m |-> "brew"]
    ELSE IF platform = "windows" THEN [ok |-> TRUE, m |-> "winget"]
    ELSE IF IsSome(FirstOnPath(LinuxManagers))
         THEN [ok |-> TRUE, m |-> Unwrap(FirstOnPath(LinuxManagers))]
         ELSE [ok |-> FALSE, m |-> ""]

\* a slip: a source none of whose managers is on PATH falls back to the default
step_package_manager_on_found(platform, default_manager, step) ==
    IF IsSome(step.package_source) /\
       IsSome(FirstOnPath(get_package_managers(Unwrap(step.package_source))))
    THEN Unwrap(FirstOnPath(get_package_managers(Unwrap(step.package_source))))
    ELSE IF IsSome(step.defaults) /\ IsSome(Unwrap(step.defaults).windows_package_manager)
            /\ platform = "windows"
         THEN Unwrap(Unwrap(step.defaults).windows_package_manager)
         ELSE default_manager

\* step_package_manager on a host whose OS_INFO.platform is `platform`
step_package_manager_on(platform, default_manager, step) ==
    IF IsSome(step.package_source)
    THEN LET cands == get_package_managers(Unwrap(step.package_source))
         IN  IF IsSome(FirstOnPath(cands)) THEN Unwrap(FirstOnPath(cands)) ELSE cands[1]
    ELSE IF IsSome(step.defaults) /\ IsSome(Unwrap(step.defaults).windows_package_manager)
            /\ platform = "windows"
         THEN Unwrap(Unwrap(step.defaults).windows_package_manager)
         ELSE default_manager

step_package_manager(default_manager, step) ==
    step_package_manager_on(HostOs.platform, default_manager, step)

(***************************************************************************)
(* config/alias.rs: PackageAliases is a table package -> (source -> alias). *)
(***************************************************************************)
Aur == [name |-> "aur", t |-> "Repository"]
Manager(name) == [name |-> name, t |-> "Manager"]

\* a slip: every manager is looked up under its own key
SourceOf_own_key(manager) == Manager(manager)

\* the source a manager's aliases are filed under
SourceOf(manager) ==
    IF \E k \in 1..Len(get_package_managers(Aur)) : get_package_managers(Aur)[k] = manager
    THEN Aur ELSE Manager(manager)

resolve_name(aliases, package, manager) ==
    IF package \in DOMAIN aliases /\ SourceOf(manager) \in DOMAIN aliases[package]
    THEN aliases[package][SourceOf(manager)]
    ELSE package

resolve_names(aliases, packages, manager) ==
    [k \in 1..Len(packages) |-> resolve_name(aliases, packages[k], manager)]

\* a slip: a package the local table names loses its global entries
merge_replacing(self, other) ==
    [pkg \in DOMAIN self \cup DOMAIN other |->
        IF pkg \in DOMAIN other THEN other[pkg] ELSE self[pkg]]

\* PackageAliases::merge: self is the global table, other the local one
merge(self, other) ==
    [pkg \in DOMAIN self \cup DOMAIN other |->
        IF pkg \notin DOMAIN other THEN self[pkg]
        ELSE IF pkg \notin DOMAIN self THEN other[pkg]
        ELSE [source \in DOMAIN self[pkg] \cup DOMAIN other[pkg] |->
                 IF source \in DOMAIN other[pkg] THEN other[pkg][source]
                 ELSE self[pkg][source]]]

\* the global aliases file, and the pkg_aliases.yaml next to the second document
GlobalAliases == [pkg \in {"fd"} |-> [source \in {Manager("apt")} |-> "fd-find"]]
LocalAliases ==
    [pkg \in {"fd", "git"} |->
        IF pkg = "fd" THEN [source \in {Manager("pacman")} |-> "fd-local"]
        ELSE [source \in {Manager("apt")} |-> "git-apt"]]

\* load_aliases: the global table, merged with the directory's own if it has one
load_aliases(file_directory) ==
    IF file_directory = PkgDir THEN merge(GlobalAliases, LocalAliases) ELSE GlobalAliases

(***************************************************************************)
(* Results, events and the order of a step's phases.                       *)
(***************************************************************************)
Result(status, why, step) == [why |-> why, step |-> step, status |-> status]
Running == Result("running", "", None)

\* an event: phase ev of the step at index k of the filtered list ended with ok
\* what run_step hands install_packages
Install(manager, packages) == [packages |-> packages, manager |-> manager]
NoInstall == Install("", <<>>)

Event(k, step, ev, ok, d) ==
    [k |-> k, ok |-> ok, step |-> step, ev |-> ev, d |-> d, inst |-> NoInstall]
NoEvent == Event(0, "", "", TRUE, "")

\* a slip: run_step runs the main script before the packages are installed
StepPhases_swapped == <<"pre", "main", "pkgs">>

\* the phases of run_step, in its order
StepPhases == <<"pre", "pkgs", "main">>

HasPhase(step, ph) ==
    CASE ph = "pre" -> IsSome(step.pre_script)
      [] ph = "pkgs" -> step.packages # <<>>
      [] OTHER -> IsSome(step.script)

ScriptOf(step, ph) ==
    CASE ph = "guard" -> Unwrap(step.when_script)
      [] ph = "pre" -> Unwrap(step.pre_script)
      [] OTHER -> Unwrap(step.script)

Rank(ph) == CHOOSE k \in 1..Len(StepPhases) : StepPhases[k] = ph

\* run_step: the first phase after position `from` the step has, or "completed"
PhaseFrom(step, from) ==
    LET later == {k \in from..Len(StepPhases) : HasPhase(step, StepPhases[k])}
    IN  IF later = {} THEN "completed"
        ELSE StepPhases[CHOOSE k \in later : \A j \in later : k <= j]

\* a slip: run_step ignores the result of a phase
AfterPhase_continue(step, ph, ok) == PhaseFrom(step, Rank(ph) + 1)

\* run_step: what follows a phase that has ended: `?` returns on an error
AfterPhase(step, ph, ok) ==
    IF ok THEN PhaseFrom(step, Rank(ph) + 1) ELSE "failed"

\* a slip: a failing when-script is propagated with `?`
AfterGuard_hard(ok) == IF ok THEN "save" ELSE "failed"

\* run, lines 101-117: what follows the when-script
AfterGuard(ok) == IF ok THEN "save" ELSE "skip"

\* a slip: a failed write of the state is propagated with `?`
AfterWrite_fatal(outcome, next) == IF outcome = "written" THEN next ELSE "failed"

\* run, lines 119-127 and 143-151: a failed write of the state is only
\* logged, and the run goes on to `next` as after a successful one
AfterWrite(outcome, next) == next

\* run, lines 119-136: what follows the write of the step's RunState
AfterSave(step, inter) == IF inter THEN "confirm" ELSE PhaseFrom(step, 1)

\* run, lines 130-135: what a Decision does
Decisions == {"Run", "Skip", "Abort", "LeaveInteractiveMode"}

\* interactive.rs MAX_SCRIPT_LINES, and the number of lines of a script of the
\* documents: the main script of "c" is the long one
MAX_SCRIPT_LINES == 8
ScriptLines(code) == IF code = "c.main" THEN 9 ELSE 1

\* need_truncate_step_output: code.lines().nth(MAX_SCRIPT_LINES).is_some() for
\* the pre-script or the main script
need_truncate_step_output(step) ==
    \/ IsSome(step.pre_script) /\ ScriptLines(Unwrap(step.pre_script).code) > MAX_SCRIPT_LINES
    \/ IsSome(step.script) /\ ScriptLines(Unwrap(step.script).code) > MAX_SCRIPT_LINES

\* the letters ask_confirmation offers for a step
Letters(step) ==
    {"r", "s", "a", "l"} \cup (IF need_truncate_step_output(step) THEN {"v"} ELSE {})

\* input.trim().to_lowercase() on the lines the user types in the model
trim_to_lowercase(input) ==
    CASE input = " R " -> "r"
      [] input = "L" -> "l"
      [] input = "V" -> "v"
      [] input = "x " -> "x"
      [] OTHER -> input

\* ask_confirmation for one line of input: print_step refuses a step whose
\* package_source is not a Manager before anything is asked ("error");
\* otherwise the line is a Decision, or asks for the full step ("view"), or is
\* no offered letter ("invalid"), and after the last two the loop reads again
ask_confirmation(step, input) ==
    IF ~(IsSome(step.package_source) /\ Unwrap(step.package_source).t = "Manager")
    THEN "error"
    ELSE IF trim_to_lowercase(input) \notin Letters(step) THEN "invalid"
    ELSE CASE trim_to_lowercase(input) = "r" -> "Run"
           [] trim_to_lowercase(input) = "s" -> "Skip"
           [] trim_to_lowercase(input) = "a" -> "Abort"
           [] trim_to_lowercase(input) = "l" -> "LeaveInteractiveMode"
           [] OTHER -> "view"

\* a slip: Abort leaves the loop with `break` instead of returning
AfterDecision_abort_breaks(step, d) ==
    CASE d = "Run" -> PhaseFrom(step, 1)
      [] d = "Skip" -> "skip"
      [] d = "Abort" -> "finish"
      [] d \in {"view", "invalid"} -> "confirm"
      [] OTHER -> PhaseFrom(step, 1)

\* "view" and "invalid" are no Decision: ask_confirmation has not returned
AfterDecision(step, d) ==
    CASE d = "Run" -> PhaseFrom(step, 1)
      [] d = "Skip" -> "skip"
      [] d = "Abort" -> "return"
      [] d \in {"view", "invalid"} -> "confirm"
      [] OTHER -> PhaseFrom(step, 1)

\* a slip: the state is written first and the when-script is never run
LoopPc_save_first(steps, k) == IF k > Len(steps) THEN "finish" ELSE "save"

\* the loop's position at step k of the list: its when-script, or the write
\* of its state when it has none, or the end of the loop
LoopPc(steps, k) ==
    IF k > Len(steps) THEN "finish"
    ELSE IF IsSome(steps[k].when_script) THEN "guard" ELSE "save"

\* a slip: the state written after the loop still names a step
FinalRunState_uncleared(inter) == RunState(Some("c"), inter)

\* run, lines 143-147: the RunState written after the loop
FinalRunState(inter) == RunState(None, inter)

(***************************************************************************)
(* commands/run.rs handle, up to the loop of runner::run.                  *)
(***************************************************************************)
RunArgs(file, tags_expr, steps, start_step_id, inter, dry_run) ==
    [steps |-> steps, tags_expr |-> tags_expr, start_step_id |-> start_step_id,
     interactive |-> inter, file |-> file, dry_run |-> dry_run]

NoArgs == RunArgs(<<>>, None, <<>>, None, FALSE, FALSE)
NoSaver == [steps |-> <<>>, tags_expr |-> None, file |-> <<>>]

\* a slip: the saver keeps the path as it was given
RunStateSaver_relative(args, base) ==
    [steps |-> args.steps, tags_expr |-> args.tags_expr, file |-> args.file]

RunStateSaver(args, base) ==
    [steps |-> args.steps, tags_expr |-> args.tags_expr,
     file |-> get_absolute_path(args.file, base).path]

\* a slip: the .env file is loaded before anything else is looked at
Refused_loaded(why, step, environment, detail) ==
    [env |-> load_env(shellEnv), why |-> why, filtered |-> <<>>, checked |-> {},
     step |-> step, detail |-> detail, go |-> "err"]

\* handle returns an error: environment is the process environment it leaves
\* and detail is what the error names
Refused(why, step, environment, detail) ==
    [env |-> environment, why |-> why, filtered |-> <<>>, checked |-> {},
     step |-> step, detail |-> detail, go |-> "err"]

\* a slip: a dry run takes the live loop
RunMode_live(params) == "loop"

\* runner::run hands a dry run to run_dry
RunMode(params) == IF params.dry_run THEN "dry" ELSE "loop"

\* everything run::handle and runner::run do before the first step: the
\* first error wins, in the order of the code
FirstError(args, base, parsed, fr, cs) ==
    IF ~get_absolute_path(args.file, base).ok THEN Refused("path", None, shellEnv, {})
    ELSE IF ~parsed.ok THEN Refused("parse", None, shellEnv, {})
    ELSE IF parsed.steps = <<>> THEN Refused("empty", None, shellEnv, {})
    ELSE IF ~check_unique_id(parsed.steps) THEN Refused("duplicate", None, shellEnv, {})
    ELSE IF ~fr.ok THEN Refused("filter", None, shellEnv, [why |-> fr.why, unknown |-> fr.unknown])
    ELSE IF check_env(fr.filtered_steps, Bound(load_env(shellEnv))) # {}
         THEN Refused("env", None, load_env(shellEnv),
                      check_env(fr.filtered_steps, Bound(load_env(shellEnv))))
    ELSE IF ~cs.ok THEN Refused("check_scripts", cs.step, load_env(shellEnv), {})
    ELSE IF ~default_package_manager(HostOs.platform).ok
         THEN Refused("pkgmgr", None, load_env(shellEnv), {})
    ELSE [env |-> load_env(shellEnv), why |-> "", filtered |-> fr.filtered_steps,
          checked |-> cs.checked, step |-> None, detail |-> {},
          go |-> RunMode(args)]

Selected(args, base) == filter_steps(parser_parse(args.file, base).steps, HostOs, args)

Preflight(args, base) ==
    FirstError(args, base, parser_parse(args.file, base), Selected(args, base),
               check_scripts(Selected(args, base).filtered_steps, {}, TRUE))

NoPlan == [steps_to_run |-> <<>>, steps_ignored_by_when |-> <<>>]

\* the command [kind, args, read]: read is what resume got from state::get
Command(kind, args, read) == [args |-> args, kind |-> kind, read |-> read]
NotRead == [ok |-> FALSE, info |-> NoInfo]

\* run::handle(args) entered from the working directory
Entered(args, pf) ==
    /\ saver' = RunStateSaver(args, cwd)
    /\ procEnv' = pf.env
    /\ msg' = pf.detail
    /\ filtered' = pf.filtered
    /\ checked' = pf.checked
    /\ interactive' = args.interactive
    /\ i' = 1
    /\ child' = None
    /\ lastEv' = NoEvent
    /\ firstStep' = None
    /\ wrote' = FALSE
    /\ lastSaveOk' = TRUE
    /\ plan' = NoPlan
    /\ pc' = CASE pf.go = "err" -> "idle"
               [] pf.go = "dry" -> "dry"
               [] OTHER -> LoopPc(pf.filtered, 1)
    /\ res' = IF pf.go = "err" THEN Result("err", pf.why, pf.step) ELSE Running

Enter(args) == Entered(args, Preflight(args, cwd))

\* the run requests a behaviour issues; a behaviour starts with a run on a
\* machine without a state file, and the commands that follow are resumes
ArgFiles == {RelPath}
ArgTags == {None, Some(<<"t1">>), Some(<<"t9">>), Some(<<"t1", "&&">>)}
ArgSteps == {<<>>, <<"c", "a">>, <<"zz">>}

StartRun(args) ==
    /\ pc = "idle"
    /\ ncmds = 0
    /\ ncmds' = ncmds + 1
    /\ cmd' = Command("run", args, NotRead)
    /\ Enter(args)
    /\ UNCHANGED <<stateFile, cwd, env, probe, nfail>>

(***************************************************************************)
(* commands/resume.rs handle.                                              *)
(***************************************************************************)
\* a slip: resume forgets the start step
resume_args_restart(state, rargs) ==
    RunArgs(state.file, state.tags_expr, state.steps, None,
            rargs.interactive \/ state.interactive, rargs.dry_run)

resume_args(state, rargs) ==
    RunArgs(state.file, state.tags_expr, state.steps, state.last_step_id,
            rargs.interactive \/ state.interactive, rargs.dry_run)

NothingToResume(why) ==
    /\ res' = Result("ok", why, None)
    /\ lastEv' = NoEvent
    /\ firstStep' = None
    /\ wrote' = FALSE
    /\ lastSaveOk' = TRUE
    /\ child' = None
    /\ plan' = NoPlan
    /\ pc' = "idle"
    /\ procEnv' = shellEnv
    /\ msg' = {}
    /\ UNCHANGED <<saver, filtered, checked, interactive, i>>

StartResume(rargs) ==
    /\ pc = "idle"
    /\ ncmds < MaxCommands
    /\ ncmds' = ncmds + 1
    /\ LET st == state_get(stateFile)
       IN  IF ~st.ok
           THEN /\ cmd' = Command("resume", NoArgs, st)
                /\ NothingToResume("nothing_to_resume")
           ELSE IF st.info.last_step_id = None
           THEN /\ cmd' = Command("resume", NoArgs, st)
                /\ NothingToResume("last_run_successful")
           ELSE /\ cmd' = Command("resume", resume_args(st.info, rargs), st)
                /\ Enter(resume_args(st.info, rargs))
    /\ UNCHANGED <<stateFile, cwd, env, probe, nfail>>

(***************************************************************************)
(* runner/mod.rs run: the loop over the filtered steps.                    *)
(***************************************************************************)
CurStep == filtered[i]

\* the loop moves on to the next step of the list
Advance ==
    /\ i' = i + 1
    /\ pc' = LoopPc(filtered, i + 1)
    /\ res' = res

\* run returns
Return(result) ==
    /\ pc' = "idle"
    /\ res' = result
    /\ i' = i

\* the loop goes where `next` says after an event of the current step
Go(next, ph) ==
    CASE next = "skip" -> Advance
      [] next = "completed" -> Advance
      [] next = "failed" -> Return(Result("err", ph, Some(CurStep.id)))
      [] next = "return" -> Return(Result("ok", "aborted", Some(CurStep.id)))
      [] OTHER -> pc' = next /\ i' = i /\ res' = res

\* where the loop goes after phase ph of the current step ended with ok
AfterEnd(ph, ok) ==
    IF ph = "guard" THEN AfterGuard(ok) ELSE AfterPhase(CurStep, ph, ok)

\* run's loop clones the step with its packages renamed under the default manager
Renamed(step, aliases, default_manager) ==
    [step EXCEPT !.packages = resolve_names(aliases, @, default_manager)]

\* the directory load_aliases looks in: the parent of source_file_path
AliasDir == saver.file[1]

\* run_step's install_packages call for a step of the loop
InstallOf(step, aliases, default_manager) ==
    Install(step_package_manager(default_manager, Renamed(step, aliases, default_manager)),
            Renamed(step, aliases, default_manager).packages)

\* the command did something for the current step; an event of the install
\* phase carries the install_packages call
Note(ev, ok, d) ==
    /\ lastEv' = [Event(i, CurStep.id, ev, ok, d) EXCEPT
                    !.inst = IF ev = "pkgs"
                             THEN InstallOf(CurStep, load_aliases(AliasDir),
                                            default_package_manager(HostOs.platform).m)
                             ELSE @]
    /\ firstStep' = IF firstStep = None THEN Some(CurStep.id) ELSE firstStep

\* the command called state_saver.save
NoteWrite(outcome) ==
    /\ outcome # "written" => nfail < MaxSaveFailures
    /\ nfail' = IF outcome = "written" THEN nfail ELSE nfail + 1
    /\ wrote' = TRUE
    /\ lastSaveOk' = (outcome = "written")

ScriptPhases == {"guard", "pre", "main"}

\* run_script up to the spawn: a script that did not pass the pre-flight is
\* checked now, and a failed check is the script's failure
SpawnScript ==
    /\ pc \in ScriptPhases
    /\ child = None
    /\ LET script == ScriptOf(CurStep, pc)
           c == IF is_checked(checked, script) THEN [ok |-> TRUE, checked |-> checked]
                ELSE check_script(checked, script, FALSE)
       IN  IF c.ok
           THEN /\ checked' = c.checked
                /\ child' = Some(pc)
                /\ UNCHANGED <<pc, i, res, hist>>
           ELSE /\ Note(pc, FALSE, "check")
                /\ Go(AfterEnd(pc, FALSE), pc)
                /\ UNCHANGED <<checked, child>>
    /\ UNCHANGED <<stateFile, cwd, env, probe, cmd, procEnv, msg, saver, filtered, interactive, writes, plan,
                   ncmds, nfail>>

\* run_script from child.wait(): the exit status decides
ExitScript(ok) ==
    /\ pc \in ScriptPhases
    /\ child = Some(pc)
    /\ child' = None
    /\ Note(pc, ok, "exit")
    /\ Go(AfterEnd(pc, ok), pc)
    /\ UNCHANGED <<stateFile, cwd, env, probe, cmd, procEnv, msg, saver, filtered, interactive, checked,
                   writes, plan, ncmds, nfail>>

\* state_saver.save of the step's RunState; a failure is only logged
SaveStep(outcome) ==
    /\ pc = "save"
    /\ NoteWrite(outcome)
    /\ stateFile' = state_save(stateFile,
                        SaverInfo(saver, RunState(Some(CurStep.id), interactive)), outcome)
    /\ Note("save", outcome = "written", outcome)
    /\ Go(AfterWrite(outcome, AfterSave(CurStep, interactive)), "save")
    /\ UNCHANGED <<cwd, env, probe, child, cmd, procEnv, msg, saver, filtered, interactive, checked, plan, ncmds>>

\* ask_confirmation returns a Decision, or an error that run propagates
Confirm(input) ==
    /\ pc = "confirm"
    /\ LET d == ask_confirmation(CurStep, input)
       IN  /\ Note("confirm", d # "error", d)
           /\ interactive' = IF d = "LeaveInteractiveMode" THEN FALSE ELSE interactive
           /\ IF d = "error" THEN Return(Result("err", "confirm", Some(CurStep.id)))
              ELSE Go(AfterDecision(CurStep, d), "confirm")
    /\ UNCHANGED <<stateFile, cwd, env, probe, child, cmd, procEnv, msg, saver, filtered, checked, writes,
                   plan, ncmds, nfail>>

\* install_packages up to the first command: the manager must be on PATH
SpawnInstall ==
    /\ pc = "pkgs"
    /\ child = None
    /\ LET manager == InstallOf(CurStep, load_aliases(AliasDir),
                                default_package_manager(HostOs.platform).m).manager
       IN  IF manager \in onPath
           THEN /\ child' = Some("pkgs")
                /\ UNCHANGED <<pc, i, res, hist>>
           ELSE /\ Note("pkgs", FALSE, "not_found")
                /\ Go(AfterPhase(CurStep, "pkgs", FALSE), "pkgs")
                /\ child' = None
    /\ UNCHANGED <<stateFile, cwd, env, probe, cmd, procEnv, msg, saver, filtered, interactive, checked,
                   writes, plan, ncmds, nfail>>

\* install_packages: the install commands have ended
ExitInstall(ok) ==
    /\ pc = "pkgs"
    /\ child = Some("pkgs")
    /\ child' = None
    /\ Note("pkgs", ok, "exit")
    /\ Go(AfterPhase(CurStep, "pkgs", ok), "pkgs")
    /\ UNCHANGED <<stateFile, cwd, env, probe, cmd, procEnv, msg, saver, filtered, interactive, checked,
                   writes, plan, ncmds, nfail>>

\* after the loop: the cleared RunState is written and run returns Ok
Finish(outcome) ==
    /\ pc = "finish"
    /\ NoteWrite(outcome)
    /\ stateFile' = state_save(stateFile, SaverInfo(saver, FinalRunState(interactive)), outcome)
    /\ lastEv' = Event(i, "", "clear", outcome = "written", outcome)
    /\ Return(IF AfterWrite(outcome, "completed") = "failed"
              THEN Result("err", "save", None)
              ELSE Result("ok", "completed", None))
    /\ UNCHANGED <<cwd, env, probe, child, cmd, procEnv, msg, saver, filtered, interactive, checked, firstStep,
                   plan, ncmds>>

(***************************************************************************)
(* runner/mod.rs run_dry: the when-scripts run, nothing else does.         *)
(***************************************************************************)
PackageManagerInfo(name, installed) == [name |-> name, installed |-> installed]
PackageInfo(name, use_alias) == [name |-> name, use_alias |-> use_alias]

\* the members of a list, each once, in the order of their first occurrence
RECURSIVE Once(_)
Once(s) ==
    IF s = <<>> THEN <<>>
    ELSE LET Other(x) == x # Head(s) IN <<Head(s)>> \o Once(SelectSeq(Tail(s), Other))

\* Step::all_used_shells: the shells of the step's scripts
all_used_shells(step) ==
    Once([k \in 1..Len(StepScripts(step)) |-> StepScripts(step)[k].shell])

\* the StepDryRun run_dry builds for a step whose guard did not fail
StepDryRun(step, aliases, default_manager) ==
    LET package_manager == step_package_manager(default_manager, step)
        Missing(shell) == ~is_shell_available(shell)
    IN  [id |-> step.id,
         package_manager |->
             IF step.packages = <<>> THEN None
             ELSE Some(PackageManagerInfo(package_manager, package_manager \in onPath)),
         packages_to_install |->
             [k \in 1..Len(step.packages) |->
                 PackageInfo(resolve_name(aliases, step.packages[k], package_manager),
                             step.packages[k] #
                                 resolve_name(aliases, step.packages[k], package_manager))],
         missing_shells |-> SelectSeq(all_used_shells(step), Missing)]

\* a slip: a step whose guard failed is planned all the same
DryRecord_always(ok) ==
    /\ plan' = [plan EXCEPT !.steps_to_run =
                    Append(@, StepDryRun(CurStep, load_aliases(AliasDir),
                                         default_package_manager(HostOs.platform).m))]
    /\ i' = i + 1

DryRecord(ok) ==
    /\ plan' = IF ok
               THEN [plan EXCEPT !.steps_to_run =
                        Append(@, StepDryRun(CurStep, load_aliases(AliasDir),
                                             default_package_manager(HostOs.platform).m))]
               ELSE [plan EXCEPT !.steps_ignored_by_when = Append(@, CurStep.id)]
    /\ i' = i + 1

DryNoGuard ==
    /\ pc = "dry"
    /\ i <= Len(filtered)
    /\ CurStep.when_script = None
    /\ DryRecord(TRUE)
    /\ UNCHANGED <<stateFile, cwd, env, probe, pc, child, cmd, procEnv, msg, saver, filtered, interactive,
                   checked, hist, writes, res, ncmds, nfail>>

DrySpawnGuard ==
    /\ pc = "dry"
    /\ i <= Len(filtered)
    /\ IsSome(CurStep.when_script)
    /\ child = None
    /\ LET script == Unwrap(CurStep.when_script)
           c == IF is_checked(checked, script) THEN [ok |-> TRUE, checked |-> checked]
                ELSE check_script(checked, script, FALSE)
       IN  IF c.ok
           THEN /\ checked' = c.checked
                /\ child' = Some("guard")
                /\ UNCHANGED <<i, plan, hist>>
           ELSE /\ Note("guard", FALSE, "check")
                /\ DryRecord(FALSE)
                /\ UNCHANGED <<checked, child>>
    /\ UNCHANGED <<stateFile, cwd, env, probe, pc, cmd, procEnv, msg, saver, filtered, interactive, writes,
                   res, ncmds, nfail>>

DryExitGuard(ok) ==
    /\ pc = "dry"
    /\ child = Some("guard")
    /\ child' = None
    /\ Note("guard", ok, "exit")
    /\ DryRecord(ok)
    /\ UNCHANGED <<stateFile, cwd, env, probe, pc, cmd, procEnv, msg, saver, filtered, interactive, checked,
                   writes, res, ncmds, nfail>>

\* a slip: the dry run ends as the live run does, with the state cleared
DryFinish_clearing ==
    /\ pc = "dry"
    /\ i > Len(filtered)
    /\ pc' = "idle"
    /\ res' = Result("ok", "dry", None)
    /\ stateFile' = state_save(stateFile, SaverInfo(saver, FinalRunState(interactive)), "written")
    /\ UNCHANGED <<cwd, env, probe, child, cmd, procEnv, msg, saver, filtered, i, interactive,
                   checked, hist, writes, plan, ncmds, nfail>>

DryFinish ==
    /\ pc = "dry"
    /\ i > Len(filtered)
    /\ pc' = "idle"
    /\ res' = Result("ok", "dry", None)
    /\ UNCHANGED <<stateFile, cwd, env, probe, child, cmd, procEnv, msg, saver, filtered, i, interactive,
                   checked, hist, writes, plan, ncmds, nfail>>

(***************************************************************************)
(* The environment between and during commands.                            *)
(***************************************************************************)
\* the process (and its subprocess) is killed: nothing more is done
Interrupt ==
    /\ pc # "idle"
    /\ pc' = "idle"
    /\ child' = None
    /\ res' = Result("killed", pc, IF i <= Len(filtered) THEN Some(CurStep.id) ELSE None)
    /\ UNCHANGED <<stateFile, cwd, env, probe, cmd, procEnv, msg, saver, filtered, i, interactive, checked,
                   hist, writes, plan, ncmds, nfail>>

\* the user changes directory between commands
ChangeDir ==
    /\ pc = "idle"
    /\ ncmds < MaxCommands
    /\ cwd' = IF cwd = DocDir THEN OtherDir ELSE DocDir
    /\ UNCHANGED <<stateFile, env, probe, pc, child, cmd, procEnv, msg, saver, filtered, i, interactive,
                   checked, hist, writes, res, plan, ncmds, nfail>>

\* the user repairs the document's scripts between commands
FixDocument ==
    /\ pc = "idle"
    /\ badScripts # {}
    /\ 0 < ncmds /\ ncmds < MaxCommands
    /\ badScripts' = {}
    /\ UNCHANGED <<stateFile, cwd, shells, onPath, shellEnv, dotEnv, probe, pc, child, cmd,
                   procEnv, msg, saver,
                   filtered, i, interactive, checked, hist, writes, res, plan, ncmds, nfail>>

(***************************************************************************)
(* runner/mod.rs run_script from the spawn to the return: the child writes *)
(* chunks to its two pipes, a reader thread per pipe sends what it reads   *)
(* on one channel, the main thread writes what it receives to `out` and    *)
(* then waits for the child.  A chunk is <<stream, n>>: the n-th read of   *)
(* the stream.                                                             *)
(***************************************************************************)
MaxChunks == 2

Streams == {"stdout", "stderr"}

\* [main] is where the main thread is: "none" before the spawn, "drain" in
\* `for chunk in rx`, "wait" at child.wait(), "returned" after the return;
\* [alive, success] are the child and the status it exits with; [open] are
\* the streams the child has not closed and [pipe] what it wrote that is not
\* read yet; [reader] is "reading", or "eof" or "error" once the thread has
\* left its loop, and [got] what it has read; [chan] is the channel and [rx]
\* whether its receiver exists; [log] is what was written to `out`;
\* [result] is what run_script returned and [waited] whether it got to
\* examine the exit status
IoState(main, alive, success, open, pipe, reader, got, chan, rx, log, result, waited) ==
    [result |-> result, main |-> main, alive |-> alive, success |-> success, open |-> open,
     pipe |-> pipe, reader |-> reader, got |-> got, chan |-> chan, rx |-> rx, log |-> log,
     waited |-> waited]

NoChunks == [stream \in Streams |-> <<>>]

NoIo == IoState("none", FALSE, TRUE, {}, NoChunks, [stream \in Streams |-> "reading"],
                NoChunks, <<>>, FALSE, <<>>, "", FALSE)

\* Command::spawn, the two thread::spawn and drop(tx)
SpawnChild ==
    /\ io.main = "none"
    /\ io' = [io EXCEPT !.main = "drain", !.alive = TRUE, !.open = Streams, !.rx = TRUE]
    /\ UNCHANGED <<engine, pool, call>>

\* the child writes to one of its streams
ChildWrites(stream) ==
    /\ io.alive /\ stream \in io.open
    /\ Len(io.got[stream]) + Len(io.pipe[stream]) < MaxChunks
    /\ io' = [io EXCEPT !.pipe[stream] =
                  Append(@, <<stream, Len(io.got[stream]) + Len(@) + 1>>)]
    /\ UNCHANGED <<engine, pool, call>>

\* the child closes one of its streams
ChildCloses(stream) ==
    /\ io.alive /\ stream \in io.open
    /\ io' = [io EXCEPT !.open = @ \ {stream}]
    /\ UNCHANGED <<engine, pool, call>>

\* the child exits: its streams are closed with it
ChildExits(success) ==
    /\ io.alive
    /\ io' = [io EXCEPT !.alive = FALSE, !.success = success, !.open = {}]
    /\ UNCHANGED <<engine, pool, call>>

\* a slip: a reader forwards only its first chunk
send_first(state, chunk) ==
    IF state.rx /\ chunk[2] = 1 THEN [state EXCEPT !.chan = Append(@, chunk)] ELSE state

\* tx.send(chunk): the chunk is queued while the receiver exists; the error
\* of a send to a dropped receiver is ignored (`let _ =`)
send(state, chunk) == IF state.rx THEN [state EXCEPT !.chan = Append(@, chunk)] ELSE state

\* what the child writes: its first write to a stream is a prompt that ends
\* without a newline, its second write ends with one
ends_with_newline(chunk) == chunk[2] % 2 = 0

\* a slip: the reader reads by line, so that a read returns only when the
\* pipe holds a newline or is closed
ReadChunk_by_line(stream) ==
    /\ io.main # "none" /\ io.reader[stream] = "reading"
    /\ io.pipe[stream] # <<>>
    /\ \/ stream \notin io.open
       \/ \E k \in 1..Len(io.pipe[stream]) : ends_with_newline(io.pipe[stream][k])
    /\ io' = send([io EXCEPT !.pipe[stream] = Tail(@),
                             !.got[stream] = Append(@, Head(io.pipe[stream]))],
                   Head(io.pipe[stream]))
    /\ UNCHANGED <<engine, pool, call>>

\* a reader thread: read returns Ok(n), n > 0, and the chunk is sent
ReadChunk(stream) ==
    /\ io.main # "none" /\ io.reader[stream] = "reading"
    /\ io.pipe[stream] # <<>>
    /\ io' = send([io EXCEPT !.pipe[stream] = Tail(@),
                             !.got[stream] = Append(@, Head(io.pipe[stream]))],
                   Head(io.pipe[stream]))
    /\ UNCHANGED <<engine, pool, call>>

\* a reader thread: read returns Ok(0) and the thread ends, dropping its tx
ReadEof(stream) ==
    /\ io.main # "none" /\ io.reader[stream] = "reading"
    /\ io.pipe[stream] = <<>> /\ stream \notin io.open
    /\ io' = [io EXCEPT !.reader[stream] = "eof"]
    /\ UNCHANGED <<engine, pool, call>>

\* a reader thread: read returns Err, which is printed, and the thread ends
ReadFails(stream) ==
    /\ io.main # "none" /\ io.reader[stream] = "reading"
    /\ io' = [io EXCEPT !.reader[stream] = "error"]
    /\ UNCHANGED <<engine, pool, call>>

\* a slip: the main thread keeps its own sender, so the channel never
\* disconnects
Disconnected_tx_kept(state) == FALSE

\* the channel is disconnected: every sender is dropped
Disconnected(state) == \A stream \in Streams : state.reader[stream] # "reading"

\* the main thread: rx yields a chunk, written and flushed to `out`; a write
\* error is returned at once, which drops rx
WriteChunk(written) ==
    /\ io.main = "drain" /\ io.chan # <<>>
    /\ io' = IF written
             THEN [io EXCEPT !.chan = Tail(@), !.log = Append(@, Head(io.chan))]
             ELSE [io EXCEPT !.main = "returned", !.rx = FALSE, !.result = "write_error"]
    /\ UNCHANGED <<engine, pool, call>>

\* the main thread: rx is empty and disconnected, the loop ends
EndOfChannel ==
    /\ io.main = "drain" /\ io.chan = <<>> /\ Disconnected(io)
    /\ io' = [io EXCEPT !.main = "wait", !.rx = FALSE]
    /\ UNCHANGED <<engine, pool, call>>

\* the main thread: child.wait() returns once the child has exited, and the
\* status decides
WaitChild ==
    /\ io.main = "wait" /\ ~io.alive
    /\ io' = [io EXCEPT !.main = "returned", !.waited = TRUE,
                        !.result = IF io.success THEN "ok" ELSE "failed"]
    /\ UNCHANGED <<engine, pool, call>>

(***************************************************************************)
(* The specification.                                                      *)
(***************************************************************************)
\* the machines a behaviour starts on: [bad, shells, path] are the scripts of
\* the document with a syntax error, the shells detect_shells found (none when
\* it was never called) and the package managers on PATH
Host(bad, sh, path, inherited, dotenv) ==
    [env |-> inherited, shells |-> sh, path |-> path, bad |-> bad, dotenv |-> dotenv]

\* the environments of a host: TOKEN is bound by the shell; TOKEN is bound by
\* the .env file only, which also rebinds HOME; TOKEN is not bound at all;
\* nothing is bound
ShellBinds == {<<"TOKEN", "shell">>, <<"HOME", "shell">>}
ShellLacks == {<<"HOME", "shell">>}
DotEnvBinds == {<<"TOKEN", "dotenv">>, <<"HOME", "dotenv">>}

Hosts ==
    { Host({}, {"bash"}, {"apt", "pacman"}, ShellBinds, {}),
      Host({"b.main"}, {"bash"}, {"apt", "pacman"}, ShellBinds, {}),
      Host({"b.main"}, {}, {"apt", "pacman"}, ShellLacks, DotEnvBinds),
      Host({"c.when"}, {}, {"apt"}, ShellBinds, {}),
      Host({"a.pre"}, {}, {"apt"}, ShellBinds, {}),
      Host({}, {"bash"}, {"apt", "pacman"}, ShellLacks, {}),
      Host({}, {"bash"}, {"apt", "pacman"}, {}, {}) }

\* the state file an earlier run left when it stopped at "w", before the
\* document restricted "w" to windows
Leftover == [kind |-> "ok", info |-> RunInfo(DocPath, None, <<>>, FALSE, Some("w"))]

\* a machine has no state file; the first machine may have the left-over one
StateFiles(h) == IF h = Host({}, {"bash"}, {"apt", "pacman"}, ShellBinds, {})
                 THEN {Absent, Leftover} ELSE {Absent}

\* no command has been issued on machine h
Idle(h) ==
    /\ cwd = DocDir
    /\ badScripts = h.bad /\ shells = h.shells /\ onPath = h.path
    /\ shellEnv = h.env /\ dotEnv = h.dotenv
    /\ procEnv = h.env
    /\ msg = {}
    /\ pc = "idle"
    /\ child = None
    /\ cmd = Command("none", NoArgs, NotRead)
    /\ saver = NoSaver
    /\ filtered = <<>>
    /\ i = 1
    /\ interactive = FALSE
    /\ checked = {}
    /\ lastEv = NoEvent
    /\ firstStep = None
    /\ wrote = FALSE
    /\ lastSaveOk = TRUE
    /\ res = Result("none", "", None)
    /\ plan = NoPlan
    /\ ncmds = 0
    /\ nfail = 0
    /\ io = NoIo

NoCall == [os_info |-> HostOs, ids |-> <<>>, tags_expr |-> None, fn |-> "none",
           start |-> None, out |-> FilterOk(<<>>, <<>>)]

Init ==
    /\ \E h \in Hosts : Idle(h) /\ stateFile \in StateFiles(h)
    /\ pool = <<>>
    /\ call = NoCall

Next ==
    \/ \E file \in ArgFiles, tags \in ArgTags, ids \in ArgSteps, inter, dry \in BOOLEAN :
          StartRun(RunArgs(file, tags, ids, None, inter, dry))
    \/ \E inter, dry \in BOOLEAN :
          StartResume([interactive |-> inter, dry_run |-> dry])
    \/ SpawnScript
    \/ \E ok \in BOOLEAN : ExitScript(ok)
    \/ \E outcome \in SaveOutcomes : SaveStep(outcome)
    \/ \E input \in {"r", "s", "a", "l"} : Confirm(input)
    \/ SpawnInstall
    \/ \E ok \in BOOLEAN : ExitInstall(ok)
    \/ \E outcome \in SaveOutcomes : Finish(outcome)
    \/ DryNoGuard
    \/ DrySpawnGuard
    \/ \E ok \in BOOLEAN : DryExitGuard(ok)
    \/ DryFinish
    \/ Interrupt
    \/ ChangeDir
    \/ FixDocument

Spec == Init /\ [][Next]_vars

(***************************************************************************)
(* Runs of the second document, live and dry, on hosts that differ in the  *)
(* package managers on PATH.                                               *)
(***************************************************************************)
PkgHosts ==
    { Host({}, {"bash"}, {"apt", "pacman"}, {}, {}),
      Host({}, {"bash"}, {"apt"}, {}, {}),
      Host({}, {"bash"}, {}, {}, {}),
      Host({}, {"bash"}, {"pacman"}, {}, {}) }

PkgIds == {<<>>, <<"p">>, <<"q">>, <<"r", "q">>}

PkgInit ==
    /\ \E h \in PkgHosts : Idle(h)
    /\ stateFile = Absent
    /\ pool = <<>>
    /\ call = NoCall

PkgNext ==
    \/ \E ids \in PkgIds, dry \in BOOLEAN :
          StartRun(RunArgs(PkgPath, None, ids, None, FALSE, dry))
    \/ SpawnScript
    \/ \E ok \in BOOLEAN : ExitScript(ok)
    \/ \E outcome \in SaveOutcomes : SaveStep(outcome)
    \/ SpawnInstall
    \/ \E ok \in BOOLEAN : ExitInstall(ok)
    \/ \E outcome \in SaveOutcomes : Finish(outcome)
    \/ DryNoGuard
    \/ DrySpawnGuard
    \/ \E ok \in BOOLEAN : DryExitGuard(ok)
    \/ DryFinish
    \/ Interrupt

PkgSpec == PkgInit /\ [][PkgNext]_vars

(***************************************************************************)
(* Interactive runs of the first document and the resumes that follow      *)
(* them: the user types any line at a confirmation.                        *)
(***************************************************************************)
\* the lines the user types: the letters, letters in capitals or between
\* blanks, and lines that are no letter
InputLines == {"r", "s", "a", "l", "v", " R ", "L", "V", "x ", ""}

InteractiveTags == {None, Some(<<"t2">>)}
InteractiveIds == {<<>>, <<"c", "a">>}

InteractiveInit ==
    /\ Idle(Host({}, {"bash"}, {"apt", "pacman"}, ShellBinds, {}))
    /\ stateFile = Absent
    /\ pool = <<>>
    /\ call = NoCall

InteractiveNext ==
    \/ \E tags \in InteractiveTags, ids \in InteractiveIds, inter \in BOOLEAN :
          StartRun(RunArgs(RelPath, tags, ids, None, inter, FALSE))
    \/ \E inter \in BOOLEAN :
          StartResume([interactive |-> inter, dry_run |-> FALSE])
    \/ SpawnScript
    \/ \E ok \in BOOLEAN : ExitScript(ok)
    \/ \E outcome \in SaveOutcomes : SaveStep(outcome)
    \/ \E input \in InputLines : Confirm(input)
    \/ SpawnInstall
    \/ \E ok \in BOOLEAN : ExitInstall(ok)
    \/ \E outcome \in SaveOutcomes : Finish(outcome)

InteractiveSpec == InteractiveInit /\ [][InteractiveNext]_vars

(***************************************************************************)
(* The filters called on their own: commands/utils.rs filter_by_ids,       *)
(* filter_by_tags, filter_by_os, filter_steps_start_with_id and            *)
(* commands/run.rs filter_steps, each applied once to a pool of steps.     *)
(***************************************************************************)
\* the steps pools are made of: their tags and OS expressions differ
ProbeSteps ==
    << Step("a", <<"t1">>, None, <<>>, None, None, None, <<>>, None),
       Step("b", <<"t1", "t2">>, Some(Not(Or(Var("arch"), Var("fedora")))), <<>>,
            None, None, None, <<>>, None),
       Step("c", <<"t3">>, Some(Var("%debian")), <<>>, None, None, None, <<>>, None),
       Step("d", <<>>, Some(Var("Ubuntu")), <<>>, None, None, None, <<>>, None),
       Step("e", <<"t2">>, Some(Var("windows")), <<>>, None, None, None, <<>>, None),
       Step("f", <<"t1", "t3">>, Some(Var("debian")), <<>>, None, None, None, <<>>, None) >>

\* the pools: the lists of at most MaxPool different steps, in any order
Pools ==
    UNION { { [k \in 1..n |-> ProbeSteps[q[k]]] :
                q \in {r \in [1..n -> 1..Len(ProbeSteps)] :
                          \A j, k \in 1..n : r[j] = r[k] => j = k} } :
            n \in 0..MaxPool }

\* the hosts: OsInfo of an Ubuntu, of an Arch and of a Windows machine
ProbeHosts ==
    { HostOs,
      [id |-> Some("arch"), platform |-> "linux", id_like |-> <<>>],
      [id |-> None, platform |-> "windows", id_like |-> <<>>] }

\* the id lists: at most MaxIds ids, repeated or unknown ids included
ProbeIdNames == {"a", "b", "d", "zz"}
ProbeIds == UNION {[1..n -> ProbeIdNames] : n \in 1..MaxIds}

\* the tag expressions, as token sequences; the last does not parse
ProbeTags ==
    { <<"t1">>, <<"t1", "&&", "t2">>, <<"!", "t3">>, <<"t1", "||", "t9">>,
      <<"!", "(", "t1", "||", "t2", ")">>, <<"!", "t9">>, <<"t8", "&&", "t9">>,
      <<"t1", "&&">> }

\* the requests filter_steps is called with
ProbeArgs ==
    { RunArgs(<<>>, tags, ids, start, FALSE, FALSE) :
        tags \in {None, Some(<<"t1", "&&", "t2">>), Some(<<"!", "t3">>), Some(<<"t3">>),
                  Some(<<"t9">>)},
        ids \in {<<>>, <<"b", "a">>, <<"zz">>},
        start \in {None, Some("a"), Some("b"), Some("zz")} }

Call(fn, ids, tags_expr, os_info, start, out) ==
    [os_info |-> os_info, ids |-> ids, tags_expr |-> tags_expr, fn |-> fn,
     start |-> start, out |-> out]

CallFilterByIds(ids) ==
    /\ call.fn = "none"
    /\ call' = Call("filter_by_ids", ids, None, HostOs, None, filter_by_ids(pool, ids))
    /\ UNCHANGED <<engine, pool, io>>

CallFilterByTags(tags_expr) ==
    /\ call.fn = "none"
    /\ call' = Call("filter_by_tags", <<>>, Some(tags_expr), HostOs, None,
                    filter_by_tags(pool, tags_expr))
    /\ UNCHANGED <<engine, pool, io>>

CallFilterByOs(os_info) ==
    /\ call.fn = "none"
    /\ call' = Call("filter_by_os", <<>>, None, os_info, None, filter_by_os(pool, os_info))
    /\ UNCHANGED <<engine, pool, io>>

CallFilterStartWithId(start_step_id) ==
    /\ call.fn = "none"
    /\ call' = Call("filter_steps_start_with_id", <<>>, None, HostOs, Some(start_step_id),
                    filter_steps_start_with_id(pool, start_step_id))
    /\ UNCHANGED <<engine, pool, io>>

CallFilterSteps(args, os_info) ==
    /\ call.fn = "none"
    /\ call' = Call("filter_steps", args.steps, args.tags_expr, os_info, args.start_step_id,
                    filter_steps(pool, os_info, args))
    /\ UNCHANGED <<engine, pool, io>>

\* the stage filters, and the name under which a second application of each
\* to its own matching list is recorded
StageFilters ==
    [filter_by_ids |-> "filter_by_ids again", filter_by_tags |-> "filter_by_tags again",
     filter_steps_start_with_id |-> "filter_steps_start_with_id again",
     filter_by_os |-> "filter_by_os again"]

\* what the filter of a call returns when it is given these steps and the
\* arguments of the call
SameFilter(made, steps) ==
    CASE made.fn = "filter_by_ids" -> filter_by_ids(steps, made.ids)
      [] made.fn = "filter_by_tags" -> filter_by_tags(steps, Unwrap(made.tags_expr))
      [] made.fn = "filter_by_os" -> filter_by_os(steps, made.os_info)
      [] OTHER -> filter_steps_start_with_id(steps, Unwrap(made.start))

\* the result of a first and of a second application
Twice(first, second) == [first |-> first, second |-> second]

\* a stage filter that succeeded is applied, with the same argument, to the
\* matching list it returned
CallFilterAgain ==
    /\ call.fn \in DOMAIN StageFilters
    /\ call.out.ok
    /\ call' = Call(StageFilters[call.fn], call.ids, call.tags_expr, call.os_info, call.start,
                    Twice(call.out, SameFilter(call, call.out.matching)))
    /\ UNCHANGED <<engine, pool, io>>

FilterInit ==
    /\ Idle(Host({}, {"bash"}, {"apt", "pacman"}, ShellBinds, {}))
    /\ stateFile = Absent
    /\ pool \in Pools
    /\ call = NoCall

FilterNext ==
    \/ \E ids \in ProbeIds : CallFilterByIds(ids)
    \/ \E tags_expr \in ProbeTags : CallFilterByTags(tags_expr)
    \/ \E os_info \in ProbeHosts : CallFilterByOs(os_info)
    \/ \E start_step_id \in ProbeIdNames : CallFilterStartWithId(start_step_id)
    \/ \E args \in ProbeArgs, os_info \in ProbeHosts : CallFilterSteps(args, os_info)
    \/ CallFilterAgain

FilterSpec == FilterInit /\ [][FilterNext]_vars

(***************************************************************************)
(* The selection of a command on its own: commands/run.rs filter_steps     *)
(* with id lists that repeat an id.                                        *)
(***************************************************************************)
SelectTags == {None, Some(<<"t1", "&&", "t2">>), Some(<<"!", "t3">>), Some(<<"t9">>)}
SelectIds == {<<>>, <<"b", "a">>, <<"a", "a">>, <<"b", "a", "b">>}
SelectStarts == {None, Some("a"), Some("b")}

\* list_steps.rs handle up to the printing: the OS filter unless --all, then
\* the tag filter when an expression is given
list_steps(steps, os_info, tags_expr, all) ==
    LET shown == IF all THEN steps ELSE filter_by_os(steps, os_info).matching
    IN  IF IsSome(tags_expr) THEN filter_by_tags(shown, Unwrap(tags_expr))
        ELSE FilterOk(shown, <<>>)

Listed(all, listed) == [all |-> all, listed |-> listed]

CallListSteps(tags_expr, all, os_info) ==
    /\ call.fn = "none"
    /\ call' = Call("list_steps", <<>>, tags_expr, os_info, None,
                    Listed(all, list_steps(pool, os_info, tags_expr, all)))
    /\ UNCHANGED <<engine, pool, io>>

SelectNext ==
    \/ \E tags \in SelectTags, ids \in SelectIds, start \in SelectStarts, os_info \in ProbeHosts :
          CallFilterSteps(RunArgs(<<>>, tags, ids, start, FALSE, FALSE), os_info)
    \/ \E tags \in SelectTags, all \in BOOLEAN, os_info \in ProbeHosts :
          CallListSteps(tags, all, os_info)

SelectSpec == FilterInit /\ [][SelectNext]_vars

(***************************************************************************)
(* The expressions on their own: config/expr.rs eval_os_expr and           *)
(* eval_tags_expr applied to an expression, to its double negation and to  *)
(* both sides of De Morgan's equivalences, and parse applied to a word     *)
(* behind leading "!".                                                     *)
(***************************************************************************)
\* the atom alphabet, and the expressions made of one connective over a set
LawAtoms == {"t1", "Ubuntu", "%debian"}
Grow(es) ==
    es \cup {Not(e) : e \in es} \cup {And(l, r) : l, r \in es} \cup {Or(l, r) : l, r \in es}
LawExprs == Grow({Var(n) : n \in LawAtoms})

\* the tag sets the tag evaluator is asked about
LawTags == {<<>>, <<"t1">>, <<"Ubuntu", "%debian">>}

\* the most "!" written before a word
MaxNots == 3

\* what an evaluator said of l, !!l, !(l && r), !l || !r, !(l || r), !l && !r
Laws(l, r, tags, plain, not_not, not_and, or_nots, not_or, and_nots) ==
    [l |-> l, r |-> r, tags |-> tags, plain |-> plain, not_not |-> not_not, not_and |-> not_and,
     or_nots |-> or_nots, not_or |-> not_or, and_nots |-> and_nots]

CallEvalOsExpr(l, r, os_info) ==
    /\ call.fn = "none"
    /\ call' = Call("eval_os_expr", <<>>, None, os_info, None,
                    Laws(l, r, <<>>, eval_os_expr(l, os_info),
                         eval_os_expr(Not(Not(l)), os_info),
                         eval_os_expr(Not(And(l, r)), os_info),
                         eval_os_expr(Or(Not(l), Not(r)), os_info),
                         eval_os_expr(Not(Or(l, r)), os_info),
                         eval_os_expr(And(Not(l), Not(r)), os_info)))
    /\ UNCHANGED <<engine, pool, io>>

CallEvalTagsExpr(l, r, tags) ==
    /\ call.fn = "none"
    /\ call' = Call("eval_tags_expr", <<>>, None, HostOs, None,
                    Laws(l, r, tags, eval_tags_expr(l, tags),
                         eval_tags_expr(Not(Not(l)), tags),
                         eval_tags_expr(Not(And(l, r)), tags),
                         eval_tags_expr(Or(Not(l), Not(r)), tags),
                         eval_tags_expr(Not(Or(l, r)), tags),
                         eval_tags_expr(And(Not(l), Not(r)), tags)))
    /\ UNCHANGED <<engine, pool, io>>

\* parse of n "!" and a word
CallParse(n, word) ==
    /\ call.fn = "none"
    /\ call' = Call("parse", <<>>, Some([k \in 1..n |-> "!"] \o <<word>>), HostOs, None,
                    parse([k \in 1..n |-> "!"] \o <<word>>))
    /\ UNCHANGED <<engine, pool, io>>

ExprInit ==
    /\ Idle(Host({}, {"bash"}, {"apt", "pacman"}, ShellBinds, {}))
    /\ stateFile = Absent
    /\ pool = <<>>
    /\ call = NoCall

ExprNext ==
    \/ \E l, r \in LawExprs, os_info \in ProbeHosts : CallEvalOsExpr(l, r, os_info)
    \/ \E l, r \in LawExprs, tags \in LawTags : CallEvalTagsExpr(l, r, tags)
    \/ \E n \in 0..MaxNots, word \in LawAtoms : CallParse(n, word)

ExprSpec == ExprInit /\ [][ExprNext]_vars

(***************************************************************************)
(* The package functions called on their own: runner/mod.rs                *)
(* step_package_manager after default_package_manager, and config/alias.rs *)
(* merge.                                                                  *)
(***************************************************************************)
\* what `which` finds on the hosts a manager is resolved on
ManagerPaths ==
    { {}, {"apt"}, {"apt", "pacman"}, {"paru", "apt"}, {"yay", "paru", "dnf"},
      {"zypper", "dnf", "choco"} }

ManagerPlatforms ==
    { HostOs,
      [id |-> None, platform |-> "macos", id_like |-> <<>>],
      [id |-> None, platform |-> "windows", id_like |-> <<>>] }

\* the steps a manager is resolved for: with and without a package source,
\* with and without a default Windows manager
ManagerSources == {None, Some(Manager("apt")), Some(Manager("choco")), Some(Aur)}
ManagerDefaults == {None, Some(Defaults(None)), Some(Defaults(Some("scoop")))}

ManagerStep(source, defaults) ==
    [Step("s", <<>>, None, <<>>, None, None, None, <<"git">>, source)
        EXCEPT !.defaults = defaults]

\* run's two calls: the default manager first, then the step's; an
\* undetectable default ends the run before any step is looked at
Resolved(step, default, manager) == [step |-> step, manager |-> manager, default |-> default]

CallStepPackageManager(os_info, step) ==
    /\ call.fn = "none"
    /\ call' = Call("step_package_manager", <<>>, None, os_info, None,
                    Resolved(step, default_package_manager(os_info.platform),
                       IF default_package_manager(os_info.platform).ok
                       THEN Some(step_package_manager_on(os_info.platform,
                                    default_package_manager(os_info.platform).m, step))
                       ELSE None))
    /\ UNCHANGED <<engine, pool, io>>

\* the alias tables merged: "pkg" has any aliases under apt and pacman, or
\* none, or is not in the table; "git" has one alias under apt or is not in it
AliasNames == {"x", "y", "z"}
AliasSources == {Manager("apt"), Manager("pacman")}
AliasMaps == UNION {[sources -> AliasNames] : sources \in SUBSET AliasSources}

AliasTables ==
    UNION { {[pkg \in {} |-> <<>>]},
            {[pkg \in {"pkg"} |-> m] : m \in AliasMaps},
            {[pkg \in {"git"} |-> [source \in {Manager("apt")} |-> "x"]]},
            {[pkg \in {"pkg", "git"} |->
                 IF pkg = "pkg" THEN m ELSE [source \in {Manager("apt")} |-> "x"]] :
             m \in AliasMaps} }

Merged(global, local, merged) == [global |-> global, local |-> local, merged |-> merged]

\* load_aliases' call: the global table merged with the local one
CallMerge(global, local) ==
    /\ call.fn = "none"
    /\ call' = Call("merge", <<>>, None, HostOs, None,
                    Merged(global, local, merge(global, local)))
    /\ UNCHANGED <<engine, pool, io>>

\* tables as the alias files can hold them: keys are managers outside the AUR, or aur
ResolveSources == {Manager("pacman"), Manager("flatpak"), Aur}
ResolveMaps == UNION {[sources -> {"x", "y"}] : sources \in SUBSET ResolveSources}
ResolveTables ==
    UNION { {[pkg \in {"vim"} |-> m] : m \in ResolveMaps},
            {[pkg \in {"vim", "nano"} |->
                 IF pkg = "vim" THEN m ELSE [source \in {Manager("pacman")} |-> "nano-pac"]] :
             m \in ResolveMaps} }
ResolveManagers == {"pacman", "flatpak", "yay", "paru"}
ResolvePackages ==
    {<<>>} \cup {<<a>> : a \in {"vim", "nano", "htop"}}
           \cup {<<a, b>> : a, b \in {"vim", "nano", "htop"}}

Names(aliases, packages, manager, names) ==
    [packages |-> packages, manager |-> manager, aliases |-> aliases, names |-> names]

\* one call of resolve_names, as run and run_dry make it
CallResolveNames(aliases, packages, manager) ==
    /\ call.fn = "none"
    /\ call' = Call("resolve_names", <<>>, None, HostOs, None,
                    Names(aliases, packages, manager,
                          resolve_names(aliases, packages, manager)))
    /\ UNCHANGED <<engine, pool, io>>

PackageInit ==
    /\ \E path \in ManagerPaths : Idle(Host({}, {"bash"}, path, {}, {}))
    /\ stateFile = Absent
    /\ pool = <<>>
    /\ call = NoCall

PackageNext ==
    \/ \E os_info \in ManagerPlatforms, source \in ManagerSources, defaults \in ManagerDefaults :
          CallStepPackageManager(os_info, ManagerStep(source, defaults))
    \/ \E global, local \in AliasTables : CallMerge(global, local)
    \/ \E aliases \in ResolveTables, packages \in ResolvePackages, manager \in ResolveManagers :
          CallResolveNames(aliases, packages, manager)

PackageSpec == PackageInit /\ [][PackageNext]_vars

(***************************************************************************)
(* One run_script on its own.                                              *)
(***************************************************************************)
ScriptInit ==
    /\ Idle(Host({}, {"bash"}, {"apt", "pacman"}, ShellBinds, {}))
    /\ stateFile = Absent
    /\ pool = <<>>
    /\ call = NoCall

ScriptNext ==
    \/ SpawnChild
    \/ \E stream \in Streams : ChildWrites(stream)
    \/ \E stream \in Streams : ChildCloses(stream)
    \/ \E success \in BOOLEAN : ChildExits(success)
    \/ \E stream \in Streams : ReadChunk(stream)
    \/ \E stream \in Streams : ReadEof(stream)
    \/ \E stream \in Streams : ReadFails(stream)
    \/ \E written \in BOOLEAN : WriteChunk(written)
    \/ EndOfChannel
    \/ WaitChild

ScriptSpec == ScriptInit /\ [][ScriptNext]_vars

\* the same with the scheduling of the threads: a reader thread that can read
\* does read (the chunk, or end-of-file), and the main thread goes on whenever
\* the channel yields a chunk or its end, or the child it waits for has exited
ScriptFairSpec ==
    /\ ScriptSpec
    /\ \A stream \in Streams : WF_vars(ReadChunk(stream) \/ ReadEof(stream))
    /\ WF_vars((\E written \in BOOLEAN : WriteChunk(written)) \/ EndOfChannel \/ WaitChild)

(***************************************************************************)
(* Vocabulary of the properties.                                           *)
(***************************************************************************)
\* the command is a run or a resume that is not a dry run
Live == cmd.kind # "none" /\ ~cmd.args.dry_run

\* the command is a resume that found a state naming a step
Resumed == cmd.kind = "resume" /\ cmd.read.ok /\ IsSome(cmd.read.info.last_step_id)

\* the state file holds a RunInfo whose last_step_id is the step `id`
Persisted(id) == stateFile.kind = "ok" /\ stateFile.info.last_step_id = Some(id)

\* the last thing the command did was a pre-script, an installation or a main
\* script that failed
HardFailure == lastEv.ev \in {"pre", "pkgs", "main"} /\ ~lastEv.ok

\* the errors of a command that is refused before the loop for its document
WrongPlace == {"path", "parse"}

\* the command has a request: it is a run, or a resume that found a step
HasRequest == cmd.kind = "run" \/ Resumed

\* the command's request got through the selection of its steps
PassedSelection ==
    HasRequest /\ res.why \notin {"path", "parse", "empty", "duplicate", "filter"}

\* the command returned an error before runner::run did anything
NothingDone ==
    /\ pc = "idle" /\ res.status = "err"
    /\ lastEv = NoEvent /\ firstStep = None /\ checked = {} /\ ~wrote /\ child = None

(***************************************************************************)
(* Run state and resume.                                                   *)
(***************************************************************************)
\* C1: when a live run returns the error of a step's pre-script, package
\* installation or main script and the state write before that step
\* succeeded, the state file names the failing step: it is neither cleared
\* nor naming another step.
C1_FailedStepIsPersisted ==
    (Live /\ res.status = "err" /\ res.why \in {"pre", "pkgs", "main"} /\ lastSaveOk)
        => /\ IsSome(res.step)
           /\ Persisted(Unwrap(res.step))

\* a run stopped by the main script of "b", the second step of three
C1_Witness ==
    /\ cmd.kind = "run" /\ res.status = "err" /\ res.why = "main"
    /\ res.step = Some("b") /\ Len(filtered) = 3 /\ wrote /\ lastSaveOk

C5_NothingRunsAfterAHardFailure ==
    (Live /\ HardFailure)
        => /\ pc = "idle"
           /\ child = None
           /\ res = Result("err", lastEv.ev, Some(lastEv.step))
           /\ i = lastEv.k

\* the pre-script of "a" failed; "a" has packages and a main script, and two
\* steps follow it
C5_Witness ==
    /\ Live /\ HardFailure /\ lastEv.ev = "pre" /\ lastEv.step = "a"
    /\ Len(filtered) = 3 /\ res.status = "err"

\* C6: when the when-script of a step of a live run has failed, the loop is
\* at the next step of the list (or the run was interrupted there) with no
\* error, and nothing else has been done for the step; when the loop is
\* over, whatever the when-scripts did, the run has no error.
C6_FailedGuardSkipsTheStep ==
    /\ (Live /\ lastEv.ev = "guard" /\ ~lastEv.ok)
          => /\ i = lastEv.k + 1
             /\ pc \in {LoopPc(filtered, i), "idle"}
             /\ res.status = IF pc = "idle" THEN "killed" ELSE "running"
    /\ (Live /\ pc = "finish") => res.status = "running"
    /\ (Live /\ res.why = "completed") => (res.status = "ok" /\ pc = "idle")

\* the when-scripts of both steps of the run failed: the loop is over,
\* nothing was written, and the run has no error
C6_Witness ==
    /\ Live /\ pc = "finish" /\ Len(filtered) = 2 /\ ~wrote
    /\ lastEv.ev = "guard" /\ ~lastEv.ok /\ lastEv.k = 2
    /\ res.status = "running"

\* the order of what a live run does for one step
C7_Order == <<"guard", "save", "confirm", "pre", "pkgs", "main", "clear">>
C7_Rank(ev) == CHOOSE n \in 1..Len(C7_Order) : C7_Order[n] = ev

\* C7: whatever a live run does, it does for the loop's current step; the
\* steps are taken one by one in the order of the list; for one step the
\* when-script, the state write, the confirmation, the pre-script, the
\* packages and the main script come in this order; a subprocess is started
\* only when none is running, and the loop moves only when none is running.
C7_StepsAndPhasesInOrder ==
    [][ /\ (Live' /\ lastEv' # lastEv /\ lastEv' # NoEvent)
              => /\ lastEv'.k = i
                 /\ lastEv'.k \in {lastEv.k, lastEv.k + 1}
                 /\ lastEv'.k = lastEv.k => C7_Rank(lastEv.ev) < C7_Rank(lastEv'.ev)
        /\ (Live' /\ child' # None /\ child' # child) => (child = None /\ child' = Some(pc'))
        /\ (Live /\ child # None /\ pc' # pc) => child' = None ]_vars

\* an interactive run reached the main script of the third step of its list
C7_Witness ==
    /\ Live /\ cmd.args.interactive
    /\ lastEv.ev = "main" /\ lastEv.ok /\ lastEv.step = "c" /\ lastEv.k = 3

C9_Selected == filter_steps(Steps, HostOs, cmd.args).filtered_steps

\* C9: when a when-, pre- or main script of a selected step has a syntax
\* error and its shell is available, the command returns the error of the
\* pre-flight check and has executed nothing and written nothing.
C9_InvalidScriptStopsTheRunFirst ==
    ( /\ cmd.kind = "run" \/ Resumed
      /\ res.why \notin {"path", "parse", "empty", "duplicate", "filter", "env"}
      /\ \E k \in 1..Len(AllScripts(C9_Selected)) :
            /\ AllScripts(C9_Selected)[k].script.code \in badScripts
            /\ is_shell_available(AllScripts(C9_Selected)[k].script.shell) )
        => /\ pc = "idle"
           /\ res.status = "err" /\ res.why = "check_scripts"
           /\ lastEv = NoEvent /\ firstStep = None
           /\ ~wrote

\* a run is refused for the main script of "b", the second step selected
C9_Witness ==
    /\ cmd.kind = "run" /\ res.status = "err" /\ res.why = "check_scripts"
    /\ res.step = Some("b") /\ "b.main" \in badScripts

C11_Loaded ==
    {b \in shellEnv \X {"shell"} \cup dotEnv \X {"dotenv"} :
        b[2] = "dotenv" \/ \A d \in dotEnv : d[1] # b[1][1]}

\* the (variable, step) pairs of the steps the request selects whose variable
\* is bound neither by the inherited environment nor by the .env file
C11_MissingOf(selected) ==
    {m \in {"TOKEN", "HOME", "WINVAR"} \X {"a", "w", "b", "c"} :
        /\ \E k \in 1..Len(selected) :
              selected[k].id = m[2] /\ Contains(selected[k].env, m[1])
        /\ \A b \in shellEnv \cup dotEnv : b[1] # m[1]}
C11_Missing == C11_MissingOf(C9_Selected)

C12_Kept == filter_steps(Steps, HostOs, [cmd.args EXCEPT !.start_step_id = None])

\* the request has a selection error: a step id the document does not have,
\* a tag expression that does not parse or names a tag no step of the
\* document carries, or a start step that is not among the selected steps
C12_SelectionError(kept) ==
    \/ \E k \in 1..Len(cmd.args.steps) : ~Contains(StepIds(Steps), cmd.args.steps[k])
    \/ /\ IsSome(cmd.args.tags_expr)
       /\ \/ ~parse(Unwrap(cmd.args.tags_expr)).ok
          \/ \E t \in expr_vars(parse(Unwrap(cmd.args.tags_expr)).e) :
                \A k \in 1..Len(Steps) : ~Contains(Steps[k].tags, t)
    \/ /\ IsSome(cmd.args.start_step_id)
       /\ kept.ok
       /\ ~Contains(StepIds(kept.filtered_steps), Unwrap(cmd.args.start_step_id))

\* C12: a request with a selection error is refused for it, and a command
\* refused for its selection has done nothing: the .env file is not loaded
\* (the process environment is the inherited one), no script was checked or
\* executed, nothing was installed and no state was written.
C12_SelectionErrorHasNoSideEffect ==
    /\ (HasRequest /\ res.why \notin {"path", "parse", "empty", "duplicate"}
           /\ C12_SelectionError(C12_Kept))
          => res.why = "filter"
    /\ (HasRequest /\ res.why = "filter")
          => /\ NothingDone
             /\ procEnv = shellEnv
             /\ msg.why \in {"parse", "unknown_tags", "unknown_steps", "start_not_found"}

\* a run with a tag expression that does not parse is refused on the machine
\* whose .env file binds TOKEN, and TOKEN is still unbound
C12_Witness ==
    /\ cmd.kind = "run" /\ res.why = "filter" /\ msg.why = "parse"
    /\ dotEnv = DotEnvBinds /\ procEnv = ShellLacks

\* C13 as stated: a resume that finds no state file, or one it cannot
\* parse, fails with an error.
C13_ResumeWithoutStateFails ==
    [][ (ncmds' = ncmds + 1 /\ cmd'.kind = "resume" /\ stateFile.kind # "ok")
            => res'.status = "err" ]_vars

\* C13: a resume that finds no state file, or one it cannot parse, does not
\* fail: it reports that there is nothing to resume and returns success,
\* having executed nothing and written nothing.
C13_ResumeWithoutStateDoesNothing ==
    [][ (ncmds' = ncmds + 1 /\ cmd'.kind = "resume" /\ stateFile.kind # "ok")
            => /\ res' = Result("ok", "nothing_to_resume", None)
               /\ pc' = "idle"
               /\ lastEv' = NoEvent /\ firstStep' = None /\ ~wrote'
               /\ stateFile' = stateFile ]_vars

\* a resume found the state file a failed write had left truncated
C13_Witness ==
    /\ cmd.kind = "resume" /\ res = Result("ok", "nothing_to_resume", None)
    /\ stateFile = Corrupt /\ ~cmd.read.ok

(***************************************************************************)
(* Writes of the state that fail.                                          *)
(***************************************************************************)
\* where a run stands after the write of the current step's state: at the
\* confirmation in interactive mode, else at the first phase the step has,
\* else at the next step
C14_AfterTheStepWrite ==
    IF interactive THEN pc' = "confirm" /\ i' = i
    ELSE IF IsSome(CurStep.pre_script) THEN pc' = "pre" /\ i' = i
    ELSE IF CurStep.packages # <<>> THEN pc' = "pkgs" /\ i' = i
    ELSE IF IsSome(CurStep.script) THEN pc' = "main" /\ i' = i
    ELSE i' = i + 1

C15_FilterByIds ==
    call.fn = "filter_by_ids" =>
        IF \A k \in 1..Len(call.ids) : \E j \in 1..Len(pool) : pool[j].id = call.ids[k]
        THEN /\ call.out.ok
             /\ Len(call.out.matching) = Len(call.ids)
             /\ \A k \in 1..Len(call.ids) :
                   /\ call.out.matching[k].id = call.ids[k]
                   /\ call.out.matching[k] \in SeqToSet(pool)
             /\ SeqToSet(call.out.not_matching)
                   = {st \in SeqToSet(pool) : \A k \in 1..Len(call.ids) : call.ids[k] # st.id}
        ELSE /\ ~call.out.ok
             /\ call.out.why = "unknown_steps"
             /\ SeqToSet(call.out.unknown)
                   = {id \in SeqToSet(call.ids) : \A j \in 1..Len(pool) : pool[j].id # id}
             /\ call.out.matching = <<>> /\ call.out.not_matching = <<>>

\* ids [b, a] over the pool [a, b, d] give [b, a]
C15_Witness ==
    /\ call.fn = "filter_by_ids" /\ call.ids = <<"b", "a">>
    /\ StepIds(pool) = <<"a", "b", "d">>
    /\ call.out.ok /\ StepIds(call.out.matching) = <<"b", "a">>
    /\ StepIds(call.out.not_matching) = <<"d">>

\* what each tag expression of ProbeTags says of a step's tags
C16_Means(tags_expr, tags) ==
    LET has(t) == \E k \in 1..Len(tags) : tags[k] = t
    IN  CASE tags_expr = <<"t1">> -> has("t1")
          [] tags_expr = <<"t1", "&&", "t2">> -> has("t1") /\ has("t2")
          [] tags_expr = <<"!", "t3">> -> ~has("t3")
          [] tags_expr = <<"t1", "||", "t9">> -> has("t1") \/ has("t9")
          [] tags_expr = <<"!", "(", "t1", "||", "t2", ")">> -> ~(has("t1") \/ has("t2"))
          [] tags_expr = <<"!", "t9">> -> ~has("t9")
          [] tags_expr = <<"t8", "&&", "t9">> -> has("t8") /\ has("t9")
          [] OTHER -> FALSE

\* the atoms of a tag expression that no step of the pool carries
C16_Unknown(tags_expr) ==
    {t \in SeqToSet(tags_expr) \ Operators : \A k \in 1..Len(pool) : ~Contains(pool[k].tags, t)}

\* C16: filter_by_tags with an expression that parses.  When every atom is a
\* tag of some step of the pool, the matching steps are the steps of the
\* pool whose tags make the expression true and the not-matching steps are
\* the others, both in the pool's order; when some atom, wherever it stands,
\* is the tag of no step of the pool, the call fails and its error lists
\* exactly those atoms.  An expression that does not parse fails as well.
C16_FilterByTags ==
    call.fn = "filter_by_tags" =>
        LET tags_expr == Unwrap(call.tags_expr)
            means(st) == C16_Means(tags_expr, st.tags)
            others(st) == ~C16_Means(tags_expr, st.tags)
        IN  IF tags_expr = <<"t1", "&&">>
            THEN ~call.out.ok /\ call.out.why = "parse"
            ELSE IF C16_Unknown(tags_expr) = {}
            THEN /\ call.out.ok
                 /\ call.out.matching = SelectSeq(pool, means)
                 /\ call.out.not_matching = SelectSeq(pool, others)
            ELSE /\ ~call.out.ok
                 /\ call.out.why = "unknown_tags"
                 /\ call.out.unknown = C16_Unknown(tags_expr)
                 /\ call.out.matching = <<>> /\ call.out.not_matching = <<>>

\* "t1 && t2" over steps tagged {t1}, {t1, t2} and {t3} matches the second
C16_Witness ==
    /\ call.fn = "filter_by_tags" /\ call.tags_expr = Some(<<"t1", "&&", "t2">>)
    /\ StepIds(pool) = <<"a", "b", "c">>
    /\ call.out.ok /\ StepIds(call.out.matching) = <<"b">>
    /\ StepIds(call.out.not_matching) = <<"a", "c">>

(***************************************************************************)
(* The filter pipeline.                                                    *)
(***************************************************************************)
\* C17: when filter_steps is given step ids that are all in the pool and a
\* tag expression whose atoms are each the tag of some step of the whole
\* pool, the tag stage reports no unknown tag, and, there being no start
\* step, the call succeeds with the requested steps that do not satisfy the
\* expression excluded by tags.
C17_TagsAreKnownByTheWholePool ==
    ( /\ call.fn = "filter_steps"
      /\ call.ids # <<>> /\ IsSome(call.tags_expr) /\ call.start = None
      /\ \A k \in 1..Len(call.ids) : Contains(StepIds(pool), call.ids[k])
      /\ \A t \in SeqToSet(Unwrap(call.tags_expr)) \ Operators :
            \E k \in 1..Len(pool) : Contains(pool[k].tags, t) )
        => /\ call.out.ok
           /\ \A k \in 1..Len(call.ids) :
                 \/ Contains(StepIds(call.out.filtered_steps), call.ids[k])
                 \/ Contains(StepIds(call.out.excluded_by_tags), call.ids[k])
                 \/ Contains(StepIds(call.out.excluded_by_os), call.ids[k])

\* an atom written without '%': its name in lower case is the platform name
\* or the distribution id of the host
C18_Named(lower, os_info) == lower = os_info.platform \/ <<lower>> = os_info.id

\* an atom written with '%': the id-like list of the host has the name
C18_Family(name, os_info) == \E k \in 1..Len(os_info.id_like) : os_info.id_like[k] = name

\* what the OS expression of each step of ProbeSteps says of a host: "a" has
\* none, "b" has !(arch || fedora), "c" %debian, "d" Ubuntu, "e" windows and
\* "f" debian
C18_Keeps(id, os_info) ==
    CASE id = "a" -> TRUE
      [] id = "b" -> ~(C18_Named("arch", os_info) \/ C18_Named("fedora", os_info))
      [] id = "c" -> C18_Family("debian", os_info)
      [] id = "d" -> C18_Named("ubuntu", os_info)
      [] id = "e" -> C18_Named("windows", os_info)
      [] OTHER -> C18_Named("debian", os_info)

\* C18: filter_by_os keeps the steps of the pool that have no OS expression
\* or whose expression is true of the host, in the pool's order, and puts
\* the others in not-matching; on the host {linux, ubuntu, [debian]}
\* "!(arch || fedora)", "%debian" and "Ubuntu" are true and "windows" and
\* "debian" are false.
C18_FilterByOs ==
    call.fn = "filter_by_os" =>
        LET keeps(st) == C18_Keeps(st.id, call.os_info)
            drops(st) == ~C18_Keeps(st.id, call.os_info)
        IN  /\ call.out.ok
            /\ call.out.matching = SelectSeq(pool, keeps)
            /\ call.out.not_matching = SelectSeq(pool, drops)
            /\ call.os_info = HostOs =>
                  /\ SeqToSet(StepIds(call.out.matching)) \subseteq {"a", "b", "c", "d"}
                  /\ SeqToSet(StepIds(call.out.not_matching)) \subseteq {"e", "f"}

\* on the Ubuntu host the pool [d, e, c] keeps "Ubuntu" and "%debian" and
\* drops "windows"
C18_Witness ==
    /\ call.fn = "filter_by_os" /\ call.os_info = HostOs
    /\ StepIds(pool) = <<"d", "e", "c">>
    /\ StepIds(call.out.matching) = <<"d", "c">>
    /\ StepIds(call.out.not_matching) = <<"e">>

\* a step with these tags is excluded by the tag expression of a request
C19_TagsExclude(tags_expr, tags) ==
    LET has(t) == \E k \in 1..Len(tags) : tags[k] = t
    IN  CASE tags_expr = None -> FALSE
          [] tags_expr = Some(<<"t1", "&&", "t2">>) -> ~(has("t1") /\ has("t2"))
          [] tags_expr = Some(<<"!", "t3">>) -> has("t3")
          [] tags_expr = Some(<<"t3">>) -> ~has("t3")
          [] OTHER -> TRUE

\* the start id of the call names no step of the pool, or a step that the
\* id, tag or OS stage of the call removes
C19_StartIsGone ==
    \A k \in 1..Len(pool) :
        pool[k].id = Unwrap(call.start) =>
            \/ call.ids # <<>> /\ \A j \in 1..Len(call.ids) : call.ids[j] # pool[k].id
            \/ C19_TagsExclude(call.tags_expr, pool[k].tags)
            \/ ~C18_Keeps(pool[k].id, call.os_info)

\* C19: filter_steps_start_with_id on a pool that has a step with the start
\* id splits the pool at that step: skipped, then matching, is the pool, the
\* matching list begins with the step, and no skipped step has the id.  On
\* a pool without the id it fails.  Inside filter_steps the pool it is
\* given is what the id, tag and OS stages left, so a start step that one of
\* them removed makes filter_steps fail, and a filter_steps that succeeds
\* with a start id returns a list that begins with that step.
C19_FilterStartWithId ==
    /\ call.fn = "filter_steps_start_with_id" =>
          IF \E k \in 1..Len(pool) : pool[k].id = Unwrap(call.start)
          THEN /\ call.out.ok
               /\ call.out.not_matching \o call.out.matching = pool
               /\ call.out.matching # <<>>
               /\ Head(call.out.matching).id = Unwrap(call.start)
               /\ \A k \in 1..Len(call.out.not_matching) :
                      call.out.not_matching[k].id # Unwrap(call.start)
          ELSE /\ ~call.out.ok
               /\ call.out.why = "start_not_found"
               /\ call.out.matching = <<>>
    /\ call.fn = "filter_steps" /\ IsSome(call.start) =>
          /\ C19_StartIsGone => ~call.out.ok
          /\ call.out.ok =>
                /\ call.out.filtered_steps # <<>>
                /\ Head(call.out.filtered_steps).id = Unwrap(call.start)
                /\ \A k \in 1..Len(call.out.skipped) :
                       call.out.skipped[k].id # Unwrap(call.start)

\* the pool [a, b, c] with the start id "b": [a] is skipped, [b, c] is kept
C19_Witness ==
    /\ call.fn = "filter_steps_start_with_id" /\ call.start = Some("b")
    /\ StepIds(pool) = <<"a", "b", "c">>
    /\ StepIds(call.out.matching) = <<"b", "c">>
    /\ StepIds(call.out.not_matching) = <<"a">>

\* the steps of a list are steps of a reference list of ids and stand in the
\* order in which their ids stand there
C20_InOrderOf(ids, steps) ==
    LET at(st) == {k \in 1..Len(ids) : ids[k] = st.id}
    IN  /\ \A k \in 1..Len(steps) :
              at(steps[k]) # {} /\ \E j \in 1..Len(pool) : pool[j] = steps[k]
        /\ \A j, k \in 1..Len(steps) :
              j < k => \A m \in at(steps[j]), n \in at(steps[k]) : m < n

\* C20: a filter_steps that succeeds without explicit ids returns four lists
\* (filtered, excluded by tags, excluded by OS, skipped) that are each a
\* subsequence of the pool, whatever the tag expression, the host and the
\* start id are; with explicit ids the filtered list stands in the order of
\* the requested ids.
C20_PipelineKeepsTheOrder ==
    call.fn = "filter_steps" /\ call.out.ok =>
        IF call.ids = <<>>
        THEN /\ C20_InOrderOf(StepIds(pool), call.out.filtered_steps)
             /\ C20_InOrderOf(StepIds(pool), call.out.excluded_by_tags)
             /\ C20_InOrderOf(StepIds(pool), call.out.excluded_by_os)
             /\ C20_InOrderOf(StepIds(pool), call.out.skipped)
        ELSE C20_InOrderOf(call.ids, call.out.filtered_steps)

\* the pool [a, c, b] on the Ubuntu host with the tags "!t3" and no ids: "a"
\* and "b" are kept in that order and "c" is excluded by its tags
C20_Witness ==
    /\ call.fn = "filter_steps" /\ call.ids = <<>> /\ call.os_info = HostOs
    /\ call.tags_expr = Some(<<"!", "t3">>) /\ call.start = None
    /\ StepIds(pool) = <<"a", "c", "b">>
    /\ StepIds(call.out.filtered_steps) = <<"a", "b">>
    /\ StepIds(call.out.excluded_by_tags) = <<"c">>

\* C21: a stage filter (ids, tags, OS, start point) applied with the same
\* argument to the matching list it returned succeeds, returns that list as
\* matching and removes nothing.
C21_FilteringIsIdempotent ==
    (\E fn \in DOMAIN StageFilters : call.fn = StageFilters[fn]) =>
        /\ call.out.second.ok
        /\ call.out.second.matching = call.out.first.matching
        /\ call.out.second.not_matching = <<>>

\* a word under n negations
RECURSIVE C22_Negated(_, _)
C22_Negated(n, word) == IF n = 0 THEN Var(word) ELSE Not(C22_Negated(n - 1, word))

\* C22: both evaluators give !!e the value of e, !(l && r) the value of
\* !l || !r and !(l || r) the value of !l && !r, in every context; and the
\* parse of n "!" before a word is the word under n nested Not, so that an
\* even number of "!" evaluates like the word and an odd number like its
\* negation.
C22_NegationLaws ==
    /\ call.fn \in {"eval_os_expr", "eval_tags_expr"} =>
          /\ call.out.l \in LawExprs /\ call.out.r \in LawExprs
          /\ call.out.not_not = call.out.plain
          /\ call.out.not_and = call.out.or_nots
          /\ call.out.not_or = call.out.and_nots
    /\ call.fn = "parse" =>
          LET input == Unwrap(call.tags_expr)
              n == Len(input) - 1
              word == input[Len(input)]
              even == n % 2 = 0
          IN  /\ call.out.ok
              /\ call.out.e = C22_Negated(n, word)
              /\ \A os_info \in ProbeHosts :
                    eval_os_expr(call.out.e, os_info)
                        = (even <=> eval_os_expr(Var(word), os_info))
              /\ \A tags \in LawTags :
                    eval_tags_expr(call.out.e, tags)
                        = (even <=> eval_tags_expr(Var(word), tags))

\* on the tags [t1], !(t1 && Ubuntu) and !t1 || !Ubuntu are both true
C22_Witness ==
    /\ call.fn = "eval_tags_expr"
    /\ call.out.l = Var("t1") /\ call.out.r = Var("Ubuntu")
    /\ call.out.tags = <<"t1">>
    /\ call.out.plain /\ call.out.not_not
    /\ call.out.not_and /\ call.out.or_nots
    /\ ~call.out.not_or /\ ~call.out.and_nots

\* the command is a dry run that has not failed or been killed
C23_InDryRun == pc = "dry" \/ (pc = "idle" /\ res = Result("ok", "dry", None))

\* the ids of the plan's would-run list
C23_WouldRun == [k \in 1..Len(plan.steps_to_run) |-> plan.steps_to_run[k].id]

C23_Members(s) == {s[k] : k \in 1..Len(s)}

\* the ids of the list `ids` that are in the set `keep`, in the list's order
C23_Only(ids, keep) == LET Kept(x) == x \in keep IN SelectSeq(ids, Kept)

\* C23: in a dry run every step of the filtered list that run_dry has dealt
\* with is in exactly one of the plan's two lists, and both lists keep the
\* order of the filtered list; a step without a guard is in the would-run
\* list, and a step with a guard is in the skipped list iff the guard's
\* execution failed (its check failed or it exited non-zero).
C23_PlanPartitionsThePool ==
    C23_InDryRun =>
        LET seen == SubSeq(filtered, 1, i - 1)
            skipped == plan.steps_ignored_by_when
        IN  /\ C23_Members(C23_WouldRun) \cap C23_Members(skipped) = {}
            /\ C23_Members(C23_WouldRun) \cup C23_Members(skipped) = C23_Members(StepIds(seen))
            /\ C23_WouldRun = C23_Only(StepIds(seen), C23_Members(C23_WouldRun))
            /\ skipped = C23_Only(StepIds(seen), C23_Members(skipped))
            /\ \A k \in 1..Len(seen) :
                  seen[k].when_script = None => seen[k].id \in C23_Members(C23_WouldRun)
            /\ (lastEv.ev = "guard" /\ lastEv.k = i - 1) =>
                  /\ IsSome(seen[i - 1].when_script)
                  /\ lastEv.step = seen[i - 1].id
                  /\ lastEv.step \in C23_Members(skipped) <=> ~lastEv.ok

\* the dry run of the whole second document has ended: "p" has no guard and
\* would run, the guard of "q" could not be started and the guard of "r"
\* exited non-zero, so both are skipped
C23_Witness ==
    /\ cmd.args.dry_run /\ res = Result("ok", "dry", None)
    /\ lastEv.step = "r" /\ lastEv.ev = "guard" /\ lastEv.d = "exit" /\ ~lastEv.ok
    /\ C23_WouldRun = <<"p">>
    /\ plan.steps_ignored_by_when = <<"q", "r">>

C25_Unavailable(step) ==
    {StepScripts(step)[k].shell : k \in 1..Len(StepScripts(step))} \ shells

\* C25: a dry run is not refused because a script names an unavailable shell,
\* and when it has ended every selected step that names one, in its guard,
\* pre-script or main script, is in the would-run list with each such shell
\* among its missing shells.
C25_MissingShellsAreReported ==
    (cmd.kind = "run" /\ cmd.args.dry_run /\ pc = "idle") =>
        /\ res.status = "err" => res.why # "check_scripts"
        /\ res = Result("ok", "dry", None) =>
              \A k \in 1..Len(filtered) :
                  C25_Unavailable(filtered[k]) # {} =>
                      \E j \in 1..Len(plan.steps_to_run) :
                          /\ plan.steps_to_run[j].id = filtered[k].id
                          /\ C25_Unavailable(filtered[k])
                                 \subseteq C23_Members(plan.steps_to_run[j].missing_shells)

\* the first member of a candidate list that is on PATH, or else its head
C26_FirstFound(candidates) ==
    IF \E k \in 1..Len(candidates) : candidates[k] \in onPath
    THEN candidates[CHOOSE k \in 1..Len(candidates) :
                       /\ candidates[k] \in onPath
                       /\ \A j \in 1..(k - 1) : candidates[j] \notin onPath]
    ELSE candidates[1]

\* the candidate list of a package source: the AUR helpers, or the manager named
C26_Candidates(source) == IF source = Aur THEN <<"yay", "paru">> ELSE <<source.name>>

\* the host's detected default manager
C26_Default(platform) ==
    CASE platform = "macos" -> "brew"
      [] platform = "windows" -> "winget"
      [] OTHER -> C26_FirstFound(<<"pacman", "apt", "dnf", "zypper">>)

\* C26: the manager resolved for a step is, if the step has an explicit
\* package source, the first manager of the source's candidate list that is on
\* PATH, or the list's first entry when none is; otherwise, on Windows with a
\* default Windows manager configured for the step, that manager; otherwise
\* the host's default manager: brew on macOS, winget on Windows, on Linux the
\* first of pacman, apt, dnf, zypper on PATH.
C26_ManagerResolution ==
    (call.fn = "step_package_manager" /\ call.out.default.ok) =>
        LET step == call.out.step
            platform == call.os_info.platform
        IN  /\ call.out.default.m = C26_Default(platform)
            /\ call.out.manager =
                  IF step.package_source # None
                  THEN Some(C26_FirstFound(C26_Candidates(Unwrap(step.package_source))))
                  ELSE IF platform = "windows" /\ step.defaults # None
                          /\ Unwrap(step.defaults).windows_package_manager # None
                       THEN Unwrap(step.defaults).windows_package_manager
                       ELSE Some(C26_Default(platform))

\* on a Linux host with paru and apt on PATH, a step installing from the AUR
\* gets paru, the first AUR helper found, although yay heads the list
C26_Witness ==
    /\ call.fn = "step_package_manager" /\ call.os_info = HostOs
    /\ onPath = {"paru", "apt"}
    /\ call.out.step.package_source = Some(Aur)
    /\ call.out.default.m = "apt"
    /\ call.out.manager = Some("paru")

\* the alias a table holds for a package under a source, as an Option
C28_Entry(table, package, source) ==
    IF package \in DOMAIN table /\ source \in DOMAIN table[package]
    THEN Some(table[package][source]) ELSE None

\* C28: in the merge of a global table with a local one, the entry of every
\* package under every source is the local table's if it has one, else the
\* global table's if it has one, else absent; names resolve accordingly, and a
\* table merged with itself is unchanged.
C28_LocalWinsKeyByKey ==
    call.fn = "merge" =>
        LET global == call.out.global
            local == call.out.local
            merged == call.out.merged
        IN  /\ \A package \in {"pkg", "git", "fd"}, source \in AliasSources \cup {Aur} :
                  /\ C28_Entry(merged, package, source) =
                        IF C28_Entry(local, package, source) # None
                        THEN C28_Entry(local, package, source)
                        ELSE C28_Entry(global, package, source)
                  /\ source # Aur =>
                        resolve_name(merged, package, source.name) =
                            IF C28_Entry(merged, package, source) # None
                            THEN Unwrap(C28_Entry(merged, package, source))
                            ELSE package
            /\ DOMAIN merged \subseteq {"pkg", "git"}
            /\ \A package \in DOMAIN merged : DOMAIN merged[package] \subseteq AliasSources
            /\ global = local => merged = global

\* global {pkg: {apt: x}} merged with local {pkg: {apt: y, pacman: z}}: apt
\* resolves to y and pacman to z
C28_Witness ==
    /\ call.fn = "merge"
    /\ call.out.global = [pkg \in {"pkg"} |-> [source \in {Manager("apt")} |-> "x"]]
    /\ DOMAIN call.out.local = {"pkg"}
    /\ C28_Entry(call.out.local, "pkg", Manager("apt")) = Some("y")
    /\ C28_Entry(call.out.local, "pkg", Manager("pacman")) = Some("z")
    /\ resolve_name(call.out.merged, "pkg", "apt") = "y"
    /\ resolve_name(call.out.merged, "pkg", "pacman") = "z"

\* the alias tables of the second document, entry by entry: the name a
\* package is installed under by a manager
C27_AliasOf(package, manager) ==
    CASE package = "fd" /\ manager = "apt" -> "fd-find"
      [] package = "fd" /\ manager = "pacman" -> "fd-local"
      [] package = "git" /\ manager = "apt" -> "git-apt"
      [] OTHER -> package

\* C27: in a live run the names handed to a step's installation are the
\* step's packages renamed under the manager the step is installed with, which
\* are the manager and the names the dry-run plan reports for the step.
\* Stated of the installations whose commands ran.
C27_InstallsUnderTheStepsManager ==
    (Live /\ lastEv.ev = "pkgs" /\ lastEv.d = "exit") =>
        LET step == filtered[lastEv.k]
            planned == StepDryRun(step, load_aliases(AliasDir),
                                  default_package_manager(HostOs.platform).m)
        IN  /\ lastEv.inst.manager = Unwrap(planned.package_manager).name
            /\ lastEv.inst.packages =
                  [k \in 1..Len(step.packages) |-> planned.packages_to_install[k].name]
            /\ lastEv.inst.packages =
                  [k \in 1..Len(step.packages) |->
                      C27_AliasOf(step.packages[k], lastEv.inst.manager)]

\* no step of the list needs the host's default manager: each declares no
\* packages, or names a package source
C29_NeedsNoDefault(steps) ==
    \A k \in 1..Len(steps) : steps[k].packages = <<>> \/ steps[k].package_source # None

\* C29: a run, live or dry, is refused for an undetectable default package
\* manager only if a selected step needs the default manager: a run whose
\* selected steps declare no packages, or only packages with a package source,
\* is not.
C29_UndetectableDefaultFailsLazily ==
    (cmd.kind = "run" /\ pc = "idle" /\ res.status = "err" /\ res.why = "pkgmgr") =>
        ~C29_NeedsNoDefault(Selected(cmd.args, cwd).filtered_steps)

\* the chunks of one stream in a list of chunks, in the list's order
C30_Of(chunks, stream) == LET From(chunk) == chunk[1] = stream IN SelectSeq(chunks, From)

C30_IsPrefix(s, t) == Len(s) <= Len(t) /\ s = SubSeq(t, 1, Len(s))

C31_Executes ==
    IF PhaseFrom(CurStep, 1) = "completed"
    THEN i' = i + 1 /\ pc' = LoopPc(filtered, i + 1)
    ELSE i' = i /\ pc' = PhaseFrom(CurStep, 1)

\* the confirmation of the current step got the answer d
C31_Answered(d) ==
    Live /\ pc = "confirm" /\ lastEv' # lastEv /\ lastEv'.ev = "confirm" /\ lastEv'.d = d

\* the run enters a phase of run_step from outside run_step
C31_EntersAStep == pc \notin {"pre", "pkgs", "main"} /\ pc' \in {"pre", "pkgs", "main"}

\* what the decisions do, and that nothing but a decision lets an interactive
\* run into a step
C31_Decisions ==
    /\ C31_Answered("Run") => (C31_Executes /\ interactive')
    /\ C31_Answered("Skip") => (i' = i + 1 /\ pc' = LoopPc(filtered, i + 1) /\ interactive')
    /\ C31_Answered("LeaveInteractiveMode") => (C31_Executes /\ ~interactive')
    /\ (C31_Answered("invalid") \/ C31_Answered("view"))
          => (pc' = "confirm" /\ i' = i /\ interactive' /\ res' = res)
    /\ (Live /\ interactive /\ C31_EntersAStep)
          => (pc = "confirm" /\ lastEv'.d \in {"Run", "LeaveInteractiveMode"})
    /\ (Live /\ pc # "idle" /\ ~interactive) => ~interactive'

\* what holds of every confirmation that ends with an answer
C31_AnswersAreFollowed ==
    /\ [][C31_Decisions]_vars
    /\ [](Live /\ interactive /\ lastEv.ev = "save" /\ pc # "idle" => pc = "confirm")
    /\ [](Live /\ ~interactive => pc # "confirm")
    /\ [](Live /\ pc = "confirm" =>
             \A input \in InputLines :
                 ask_confirmation(CurStep, input) \in Decisions
                     => trim_to_lowercase(input) \in {"r", "s", "a", "l"})

\* C31: in interactive mode Run executes the step and leaves the mode on, so
\* that the next step that passes its guard is asked about; Skip goes to the
\* next step without any phase of the step and leaves the mode on; Leave
\* executes the step and turns the mode off for the rest of the run; a line
\* that is no offered letter selects nothing and the question is repeated;
\* and a step an interactive run gets to after an answer is asked about in
\* its turn: when its guard has passed and its state is written, its
\* confirmation asks the question and does not end with an error.
C31_DecisionDeterminesWhatFollows ==
    /\ C31_AnswersAreFollowed
    /\ [][(Live /\ pc = "confirm" /\ lastEv' # lastEv /\ firstStep # Some(CurStep.id))
             => lastEv'.d # "error"]_vars

(***************************************************************************)
(* The selection: what the four lists of filter_steps hold.                *)
(***************************************************************************)
\* the pool that enters the tag stage of the call
C32_Entering ==
    IF call.ids = <<>> THEN pool ELSE [k \in 1..Len(call.ids) |-> MapGet(pool, call.ids[k])]

\* the stage that removes a step of the entering pool, or "none"
C32_RemovedBy(step, skipped) ==
    IF C19_TagsExclude(call.tags_expr, step.tags) THEN "tags"
    ELSE IF ~C18_Keeps(step.id, call.os_info) THEN "os"
    ELSE IF step \in skipped THEN "start"
    ELSE "none"

\* C32: the filtered, excluded-by-tags, excluded-by-OS and skipped lists of a
\* filter_steps that succeeds are pairwise disjoint, together they hold the
\* steps of the pool that entered the tag stage and no other, and a step is
\* in the list of the first stage that removed it: a step the tag expression
\* rejects is excluded by tags and never by OS.
C32_FourListsPartitionThePool ==
    call.fn = "filter_steps" /\ call.out.ok =>
        LET kept == SeqToSet(call.out.filtered_steps)
            by_tags == SeqToSet(call.out.excluded_by_tags)
            by_os == SeqToSet(call.out.excluded_by_os)
            skipped == SeqToSet(call.out.skipped)
        IN  /\ kept \cap by_tags = {} /\ kept \cap by_os = {} /\ kept \cap skipped = {}
            /\ by_tags \cap by_os = {} /\ by_tags \cap skipped = {} /\ by_os \cap skipped = {}
            /\ kept \cup by_tags \cup by_os \cup skipped = SeqToSet(C32_Entering)
            /\ \A step \in SeqToSet(C32_Entering) :
                  /\ step \in by_tags <=> C32_RemovedBy(step, skipped) = "tags"
                  /\ step \in by_os <=> C32_RemovedBy(step, skipped) = "os"
                  /\ step \in kept <=> C32_RemovedBy(step, skipped) = "none"

(***************************************************************************)
(* The validation cache.                                                   *)
(***************************************************************************)
\* the script run_script is called with at the loop's position
C33_Script == IF pc = "dry" THEN Unwrap(CurStep.when_script) ELSE ScriptOf(CurStep, pc)

\* run_script starts the child of a script, or returns the error of its check
C33_Spawns == child = None /\ child' # None /\ child' # Some("pkgs")
C33_CheckFails == lastEv' # lastEv /\ lastEv'.d = "check"

\* C33: a script is marked checked only by a check that ran and succeeded: its
\* shell can be started and its code has no syntax error, and in the
\* pre-flight pass, where a check is skipped for an unavailable shell, only
\* scripts of available shells are marked.  run_script checks a script that is
\* not marked, once: it marks it and starts it, or returns the error; it
\* starts a marked script without a check, so a failed check is never the
\* check of a marked script.
C33_CheckedMeansValidated ==
    /\ [](\A h \in checked : h[1] \in ShellBinaries /\ h[2] \notin badScripts)
    /\ [][ /\ (ncmds' # ncmds /\ HasRequest') => \A h \in checked' : h[1] \in shells
           /\ C33_Spawns =>
                 /\ is_checked(checked', C33_Script)
                 /\ checked' = checked \cup {hash_script(C33_Script)}
           /\ C33_CheckFails =>
                 /\ ~is_checked(checked, C33_Script)
                 /\ checked' = checked /\ child' = None
           /\ (ncmds' = ncmds /\ checked' # checked) => C33_Spawns ]_vars

\* shell detection never ran, so the pre-flight pass skipped every check, and
\* run_script checked the when-script of "a" itself before it started it
C33_Witness ==
    /\ Live /\ shells = {} /\ child = Some("guard") /\ CurStep.id = "a"
    /\ checked = {hash_script(Unwrap(CurStep.when_script))}

(***************************************************************************)
(* run_script: termination.                                                *)
(***************************************************************************)
\* run_script returns once the child it started has exited
C34_Returns == (io.main # "none" /\ ~io.alive) ~> (io.main = "returned")

\* when the child has exited the channel empties and disconnects: both reader
\* threads end, and only then does the drain loop end
C34_DrainEnds ==
    /\ (io.main # "none" /\ ~io.alive) ~> (io.main # "drain")
    /\ [](io.main = "wait" => Disconnected(io) /\ io.chan = <<>>)

C35_Chunks == {<<stream, n>> : stream \in Streams, n \in 1..MaxChunks}

\* the child has written the chunk; the chunk is in the log
C35_Written(chunk) == \E k \in 1..Len(io.pipe[chunk[1]]) : io.pipe[chunk[1]][k] = chunk
C35_Logged(chunk) == \E k \in 1..Len(io.log) : io.log[k] = chunk

C36_Key(manager) == IF manager \in {"yay", "paru"} THEN Aur ELSE Manager(manager)

C36_HasEntry(aliases, package, manager) ==
    /\ package \in DOMAIN aliases
    /\ C36_Key(manager) \in DOMAIN aliases[package]

C36_ResolvesUnderTheSourceKey ==
    call.fn = "resolve_names" =>
        LET r == call.out
        IN  /\ Len(r.names) = Len(r.packages)
            /\ \A k \in 1..Len(r.packages) :
                  /\ C36_HasEntry(r.aliases, r.packages[k], r.manager) =>
                        r.names[k] = r.aliases[r.packages[k]][C36_Key(r.manager)]
                  /\ ~C36_HasEntry(r.aliases, r.packages[k], r.manager) =>
                        r.names[k] = r.packages[k]

\* paru resolves vim under the aur key although pacman has an alias of its own, and
\* nano, aliased for pacman only, passes through
C36_Witness ==
    /\ call.fn = "resolve_names"
    /\ call.out.manager = "paru"
    /\ call.out.packages = <<"nano", "vim">>
    /\ call.out.aliases["vim"] = [source \in {Manager("pacman"), Aur} |->
                                     IF source = Aur THEN "y" ELSE "x"]
    /\ call.out.names = <<"nano", "y">>

\* the command in progress, or the last one, was given --dry-run
C37_Dry == cmd.kind # "none" /\ cmd.args.dry_run

\* C37: a dry run never writes the run state: no step that enters a command,
\* and no step of run --dry-run or resume --dry-run up to the next command,
\* changes the state file, so a pending resume point survives dry runs.
C37_DryRunKeepsTheState ==
    [][(C37_Dry' \/ ncmds' # ncmds) => stateFile' = stateFile]_vars

\* the second command of the behaviour, a resume --dry-run, has ended with a
\* plan, and the state file still names the step it resumed at
C37_Witness ==
    /\ Resumed /\ cmd.args.dry_run
    /\ ncmds = 2
    /\ pc = "idle" /\ res = Result("ok", "dry", None)
    /\ plan.steps_to_run # <<>>
    /\ stateFile.kind = "ok" /\ stateFile.info.last_step_id = cmd.args.start_step_id

\* the step is a call of state_saver.save that wrote the file
C38_Writes == pc \in {"save", "finish"} /\ lastEv'.ev \in {"save", "clear"} /\ lastEv'.ok

\* the step is resume's entry into a run, with --interactive given or not
C38_Resumes(inter) == StartResume([interactive |-> inter, dry_run |-> FALSE]) /\ Resumed'

\* the step is the choice of Leave-interactive-mode at the current step
C38_Leaves ==
    pc = "confirm" /\ lastEv' # lastEv /\ lastEv'.d = "LeaveInteractiveMode"

C39_FilteredStepsAreDistinct ==
    call.fn = "filter_steps" /\ call.out.ok =>
        \A j, k \in 1..Len(call.out.filtered_steps) :
            call.out.filtered_steps[j].id = call.out.filtered_steps[k].id => j = k

\* what run's filter_steps makes of the pool list-steps was called with, on
\* the same host and with the same tag expression, no ids and no start step
C40_Run ==
    filter_steps(pool, call.os_info, RunArgs(<<>>, call.tags_expr, <<>>, None, FALSE, FALSE))

\* C40: for the same document, host and tag expression, list-steps without
\* --all and run without ids agree: both reject the expression for an unknown
\* tag or neither does, and when both accept it the steps listed are the
\* steps of run's filtered list, in the same order.
C40_ListStepsAgreesWithRun ==
    (call.fn = "list_steps" /\ ~call.out.all) =>
        /\ (~call.out.listed.ok /\ call.out.listed.why = "unknown_tags")
              <=> (~C40_Run.ok /\ C40_Run.why = "unknown_tags")
        /\ (call.out.listed.ok /\ C40_Run.ok) =>
              call.out.listed.matching = C40_Run.filtered_steps

====
